---- MODULE Spec2Model ----
(***************************************************************************)
(* State-machine model of the support-chat agent orchestrator              *)
(* (chat_app): conversation memory, the v1.0 turn graph, the retrieval     *)
(* client and the tools subgraph (scenario map / reduce / condition        *)
(* decide / summarize-to-imperatives).                                     *)
(***************************************************************************)
EXTENDS Integers, Sequences, FiniteSets, TLC

(***************************************************************************)
(* Bounds of the model and program constants.                              *)
(***************************************************************************)
\* number of /chat requests started in one behaviour with overlapping requests
MaxTurns == 2
\* number of /chat requests started in one behaviour with one request after another
SerialTurns == 3
\* number of requests that may be in flight at the same time
NumSlots == 2
\* retriever.py:38  max_attempts = 8
max_attempts == 8
\* graph_pipeline.py:321  attempts < 2
JudgeCap == 2

Slots == 1..NumSlots
\* requests are numbered in the order they start
TurnIds == 1..(IF SerialTurns > MaxTurns THEN SerialTurns ELSE MaxTurns)

(***************************************************************************)
(* Text.  A text is a sequence of one-character strings; WS is the         *)
(* whitespace character.  Strip is Python's str.strip().                   *)
(***************************************************************************)
WS == " "

RECURSIVE LStrip(_)
LStrip(s) == IF s # <<>> /\ Head(s) = WS THEN LStrip(Tail(s)) ELSE s

RECURSIVE RStrip(_)
RStrip(s) ==
    IF s # <<>> /\ s[Len(s)] = WS THEN RStrip(SubSeq(s, 1, Len(s) - 1)) ELSE s

Strip(s) == RStrip(LStrip(s))

\* Python's `a or b` on strings: the empty string (and a missing key) is falsy.
OrText(a, b) == IF a # <<>> THEN a ELSE b

(***************************************************************************)
(* The LLM provider.  A chat call either raises (authentication,           *)
(* rate-limit, network/timeout, other) or returns a text.  For chat_json   *)
(* the text is classified by what json.loads and the {...} regex make of   *)
(* it.                                                                     *)
(***************************************************************************)
ErrKinds == {"rate", "network"}

\* texts the generation model may return
DraftTexts == { <<" ", "a", " ">> }
\* texts the revise model may return
ReviseTexts == { <<>>, <<"b", " ">> }
\* the user message of a request
UserMessage == <<"q">>

ChatErr(kind) == [ok |-> FALSE, kind |-> kind, text |-> <<>>]
ChatOk(text) == [ok |-> TRUE, kind |-> "none", text |-> text]

GenOutcomes == {ChatErr(k) : k \in ErrKinds} \cup {ChatOk(x) : x \in DraftTexts}
ReviseOutcomes == {ChatErr(k) : k \in ErrKinds} \cup {ChatOk(x) : x \in ReviseTexts}

(***************************************************************************)
(* _OpenRouterClient.chat_json.  A reply to one of its three chat calls is *)
(* either an error (the call raises) or a text of one of these shapes:     *)
(*   "json_dict"  : the text is a JSON object (its content is `data`)      *)
(*   "json_other" : the text is valid JSON but not an object               *)
(*   "embedded"   : not JSON as a whole, but holds a {...} that parses     *)
(*   "garbage"    : neither                                                *)
(* `data` is the parsed object; `empty` is how the caller's record type    *)
(* writes the empty dict {} (every key missing).                           *)
(***************************************************************************)
JsonErr(empty) == [ok |-> FALSE, shape |-> "none", data |-> empty]
JsonReply(shape, data) == [ok |-> TRUE, shape |-> shape, data |-> data]

\* result of chat_json: it raised, or returned a dict, or returned a non-dict
CJRaise(empty) == [raised |-> TRUE, isdict |-> FALSE, data |-> empty]
CJValue(isdict, data) == [raised |-> FALSE, isdict |-> isdict, data |-> data]

\* the strict and the json_object attempt return when json.loads succeeds
JsonModeReturns(o) == o.ok /\ o.shape \in {"json_dict", "json_other"}
JsonModeValue(o, empty) ==
    IF o.shape = "json_dict" THEN CJValue(TRUE, o.data) ELSE CJValue(FALSE, empty)

\* the plain attempt is not guarded; then the first {...} is extracted
PlainModeValue(o, empty) ==
    IF ~o.ok THEN CJRaise(empty)
    ELSE IF o.shape \in {"json_dict", "embedded"} THEN CJValue(TRUE, o.data)
    ELSE CJValue(TRUE, empty)

chat_json(o1, o2, o3, empty) ==
    IF JsonModeReturns(o1) THEN JsonModeValue(o1, empty)
    ELSE IF JsonModeReturns(o2) THEN JsonModeValue(o2, empty)
    ELSE PlainModeValue(o3, empty)

\* the replies the provider may give when the objects it may write are Data
JsonOutcomes(Data, empty) ==
    {JsonErr(empty)}
      \cup {JsonReply(s, d) : s \in {"json_dict", "embedded"}, d \in Data}
      \cup {JsonReply(s, empty) : s \in {"json_other", "garbage"}}

(***************************************************************************)
(* KBRetriever.search: up to max_attempts requests, the first success      *)
(* ends the loop; when the last request made failed the result is [].      *)
(* `fails` is the number of leading requests that fail.                    *)
(***************************************************************************)
ChunkLists == { <<"k1">> }
\* how many leading requests of one search fail
SearchFails == {1, max_attempts}

\* a loop that allows one request more
RECURSIVE SearchLoopNine(_, _, _)
SearchLoopNine(attempt, fails, chunks) ==
    IF attempt > max_attempts + 1
      THEN [attempts |-> max_attempts + 1, failed |-> TRUE, chunks |-> <<>>]
    ELSE IF attempt > fails
      THEN [attempts |-> attempt, failed |-> FALSE, chunks |-> chunks]
    ELSE SearchLoopNine(attempt + 1, fails, chunks)

RECURSIVE SearchLoop(_, _, _)
SearchLoop(attempt, fails, chunks) ==
    IF attempt > max_attempts
      THEN [attempts |-> max_attempts, failed |-> TRUE, chunks |-> <<>>]
    ELSE IF attempt > fails
      THEN [attempts |-> attempt, failed |-> FALSE, chunks |-> chunks]
    ELSE SearchLoop(attempt + 1, fails, chunks)

search(fails, chunks) == SearchLoop(1, fails, chunks)

(***************************************************************************)
(* Conversation state (schemas.py) and scenario data.                      *)
(*   user_profile.name : a string, NoneStr when unset                      *)
(*   user_profile.age  : an integer, NoneInt when unset                    *)
(* Scenario names, block sources and scenario texts are texts (sequences   *)
(* of characters), so that str.strip() is computed, not assumed.           *)
(***************************************************************************)
NoneStr == "<None>"
NoneInt == -1

FreshState == [message_index |-> 0, name |-> NoneStr, age |-> NoneInt, summary |-> <<>>]

\* `if profile.name` : None and "" are falsy
NameSet(name) == name # NoneStr /\ name # ""

\* ScenarioNode (schemas.py:86-105); id is the dotted id as its integer parts
NoCond == [kind |-> "empty", op |-> "", rhs |-> 0]
FreeCond == [kind |-> "free", op |-> "", rhs |-> 0]
BlankCond == [kind |-> "blank", op |-> "", rhs |-> 0]
FirstCond == [kind |-> "first", op |-> "", rhs |-> 0]
NotFirstCond == [kind |-> "notfirst", op |-> "", rhs |-> 0]
CmpCond(op, rhs) == [kind |-> "cmp", op |-> op, rhs |-> rhs]

TextNode(id, text) ==
    [id |-> id, type |-> "text", text |-> text, tool |-> "", cond |-> NoCond,
     children |-> <<>>, else_children |-> <<>>]
ToolNode(id, tool) ==
    [id |-> id, type |-> "tool", text |-> <<>>, tool |-> tool, cond |-> NoCond,
     children |-> <<>>, else_children |-> <<>>]
IfNode(id, cond, children, else_children) ==
    [id |-> id, type |-> "if", text |-> <<>>, tool |-> "", cond |-> cond,
     children |-> children, else_children |-> else_children]
EndNode(id) ==
    [id |-> id, type |-> "end", text |-> <<>>, tool |-> "", cond |-> NoCond,
     children |-> <<>>, else_children |-> <<>>]

\* template pieces: a literal character, {=@tool.field=}, {=dialog.key=}
Lit(c) == [k |-> "lit", a |-> c, f |-> ""]
ToolRef(tool, field) == [k |-> "tool", a |-> tool, f |-> field]
DialogRef(key) == [k |-> "dialog", a |-> key, f |-> ""]

(***************************************************************************)
(* scenario_engine._sort_key and sorted(nodes, key=_sort_key): a stable    *)
(* sort on the lists of integer parts, compared as Python compares lists.  *)
(***************************************************************************)
RECURSIVE KeyLess(_, _)
KeyLess(a, b) ==
    IF a = <<>> THEN b # <<>>
    ELSE IF b = <<>> THEN FALSE
    ELSE IF Head(a) # Head(b) THEN Head(a) < Head(b)
    ELSE KeyLess(Tail(a), Tail(b))

_sort_key(node) == node.id

RECURSIVE InsertNode(_, _)
InsertNode(sorted, node) ==
    IF sorted = <<>> THEN <<node>>
    ELSE IF KeyLess(_sort_key(node), _sort_key(Head(sorted)))
      THEN <<node>> \o sorted
    ELSE <<Head(sorted)>> \o InsertNode(Tail(sorted), node)

RECURSIVE SortNodes(_)
SortNodes(nodes) ==
    IF nodes = <<>> THEN <<>>
    ELSE InsertNode(SortNodes(SubSeq(nodes, 1, Len(nodes) - 1)), nodes[Len(nodes)])

(***************************************************************************)
(* scenario_engine._render_template.  A text is a sequence of pieces;      *)
(* rendering replaces every placeholder by the characters of its value,    *)
(* or by the token finderror.  tool_results is the facts map (keyed by     *)
(* tool name); a fact is a dict [empty, keys, name, age]: {} is EmptyFact, *)
(* Fact is the dict run_scenario_map builds from the profile, UserData is  *)
(* the __dict__ of the dataclass the tool returns (birthday_date = None).  *)
(***************************************************************************)
FindError == <<"finderror">>

EmptyFact == [empty |-> TRUE, keys |-> {}, name |-> NoneStr, age |-> NoneInt]
Fact(name, age) == [empty |-> FALSE, keys |-> {"name", "age"}, name |-> name, age |-> age]
UserData(name, age) == [Fact(name, age) EXCEPT !.keys = @ \cup {"birthday_date"}]

\* str(dict) of a non-empty fact
StrOfDict(d) ==
    IF "birthday_date" \in d.keys THEN <<"{name,age,birthday_date}">> ELSE <<"{name,age}">>

StrOfName(name) ==
    IF name = NoneStr THEN FindError ELSE IF name = "" THEN <<>> ELSE <<name>>
StrOfInt(n) == IF n = NoneInt THEN FindError ELSE <<ToString(n)>>

\* a rendering that reads the profile when no fact is recorded for the tool
RenderPieceProfile(p, conv, facts) ==
    CASE p.k = "lit" -> <<p.a>>
      [] p.k = "tool" ->
           LET tool_data == IF p.a \in DOMAIN facts THEN facts[p.a] ELSE Fact(conv.name, conv.age)
           IN  IF p.f = "" THEN StrOfDict(tool_data)
               ELSE IF p.f = "name" THEN StrOfName(tool_data.name)
               ELSE IF p.f = "age" THEN StrOfInt(tool_data.age)
               ELSE FindError
      [] p.k = "dialog" ->
           IF p.a = "name" THEN StrOfName(conv.name)
           ELSE IF p.a = "age" THEN StrOfInt(conv.age)
           ELSE IF p.a = "message_index" THEN <<ToString(conv.message_index)>>
           ELSE FindError
      [] OTHER -> FindError

RenderPiece(p, conv, facts) ==
    CASE p.k = "lit" -> <<p.a>>
      [] p.k = "tool" ->
           LET tool_data == IF p.a \in DOMAIN facts THEN facts[p.a] ELSE EmptyFact
           IN  IF p.f = "" THEN (IF tool_data.empty THEN FindError ELSE StrOfDict(tool_data))
               ELSE IF tool_data.empty THEN FindError
               ELSE IF p.f = "name" THEN StrOfName(tool_data.name)
               ELSE IF p.f = "age" THEN StrOfInt(tool_data.age)
               ELSE FindError
      [] p.k = "dialog" ->
           IF p.a = "name" THEN StrOfName(conv.name)
           ELSE IF p.a = "age" THEN StrOfInt(conv.age)
           ELSE IF p.a = "message_index" THEN <<ToString(conv.message_index)>>
           ELSE FindError
      [] OTHER -> FindError

RECURSIVE _render_template(_, _, _)
_render_template(text, conv, facts) ==
    IF text = <<>> THEN <<>>
    ELSE RenderPiece(Head(text), conv, facts) \o _render_template(Tail(text), conv, facts)

(***************************************************************************)
(* scenario_engine._try_eval_message_index_condition: "true", "false" or   *)
(* "none" (not decided deterministically).                                 *)
(***************************************************************************)
Bool3(b) == IF b THEN "true" ELSE "false"

_try_eval_message_index_condition(cond, message_index) ==
    CASE cond.kind \in {"empty", "blank"} -> "none"
      [] cond.kind = "notfirst" -> Bool3(message_index # 1)
      [] cond.kind = "first" -> Bool3(message_index = 1)
      [] cond.kind = "cmp" ->
           CASE cond.op = "==" -> Bool3(message_index = cond.rhs)
             [] cond.op = "!=" -> Bool3(message_index # cond.rhs)
             [] cond.op = "<" -> Bool3(message_index < cond.rhs)
             [] cond.op = "<=" -> Bool3(message_index <= cond.rhs)
             [] cond.op = ">" -> Bool3(message_index > cond.rhs)
             [] cond.op = ">=" -> Bool3(message_index >= cond.rhs)
             [] OTHER -> "none"
      [] OTHER -> "none"

(***************************************************************************)
(* InstructionBlock (graph_state.py:15-23).  The id string                 *)
(* "scenario:<name>:<part>:<node-id>[:<tag>[:<idx>]]" is kept as its       *)
(* parts; a block without a "text" key has text <<>> (every reader uses    *)
(* `b.get("text") or ...`); payload carries the conditional program.       *)
(***************************************************************************)
Priority == 10

BlockId(scn, part, node, tag, idx) ==
    [scn |-> scn, part |-> part, node |-> node, tag |-> tag, idx |-> idx]

NoPayload == [present |-> FALSE, condition |-> NoCond, when_true |-> <<>>, when_false |-> <<>>]

Block(id, source, target, kind, text, payload) ==
    [id |-> id, source |-> source, target |-> target, kind |-> kind,
     priority |-> Priority, text |-> text, payload |-> payload]

\* the registered tools (tools/registry.py:20-41)
RegisteredTools == {"get_user_data"}

(***************************************************************************)
(* ToolRegistry.call: {} for an unregistered tool or when the function     *)
(* raises (tool_out.empty), else the returned object's fields.             *)
(***************************************************************************)
\* a call that does not look the tool up
call_unchecked(tool_name, tool_out) == tool_out

call(tool_name, tool_out) ==
    IF tool_name \notin RegisteredTools THEN EmptyFact ELSE tool_out

(***************************************************************************)
(* run_scenario_map and its closures.  st is the run's mutable state:      *)
(*   facts, blocks : the result being built                                *)
(*   conv          : the turn's ConversationState (its profile is          *)
(*                   backfilled in place)                                  *)
(*   calls         : how many times tools.call was awaited                 *)
(* env is [scn, tool_out].                                                 *)
(***************************************************************************)
ensure_tool_data(tool_name, st, env) ==
    IF tool_name \in DOMAIN st.facts THEN st
    ELSE IF tool_name = "get_user_data" /\ NameSet(st.conv.name) /\ st.conv.age # NoneInt
      THEN [st EXCEPT !.facts = @ @@ (tool_name :> Fact(st.conv.name, st.conv.age))]
    ELSE
      LET data == call(tool_name, env.tool_out)
          name2 == IF tool_name = "get_user_data" /\ ~NameSet(st.conv.name)
                     THEN data.name ELSE st.conv.name
          age2 == IF tool_name = "get_user_data" /\ st.conv.age = NoneInt
                       /\ data.age # NoneInt
                    THEN data.age ELSE st.conv.age
      IN  [st EXCEPT !.facts = @ @@ (tool_name :> data),
                     !.calls = @ + 1,
                     !.conv = [@ EXCEPT !.name = name2, !.age = age2]]

add_text_block(node, st, env) ==
    LET rendered == _render_template(node.text, st.conv, st.facts)
    IN  [st EXCEPT !.blocks = Append(@,
            Block(BlockId(env.scn, "text", node.id, "", 0), env.scn, "agent", "raw",
                  rendered, NoPayload))]

\* the rendered texts of the text nodes of a branch at any depth
RECURSIVE BranchTextsDeep(_, _)
BranchTextsDeep(children, st) ==
    IF children = <<>> THEN <<>>
    ELSE LET child == Head(children)
             rest == BranchTextsDeep(Tail(children), st)
         IN  IF child.type = "text" /\ child.text # <<>>
               THEN <<_render_template(child.text, st.conv, st.facts)>> \o rest
               ELSE IF child.type = "if"
                 THEN BranchTextsDeep(child.children, st) \o rest
               ELSE rest

\* the rendered texts of the direct text children of an undecided `if`
RECURSIVE BranchTexts(_, _)
BranchTexts(children, st) ==
    IF children = <<>> THEN <<>>
    ELSE LET child == Head(children)
             rest == BranchTexts(Tail(children), st)
         IN  IF child.type = "text" /\ child.text # <<>>
               THEN <<_render_template(child.text, st.conv, st.facts)>> \o rest
               ELSE rest

add_conditional_program(node, st, env) ==
    LET payload == [present |-> TRUE, condition |-> node.cond,
                    when_true |-> BranchTexts(node.children, st),
                    when_false |-> BranchTexts(node.else_children, st)]
    IN  [st EXCEPT !.blocks = @ \o
            << Block(BlockId(env.scn, "if", node.id, "", 0), env.scn, "agent",
                     "conditional", <<>>, payload),
               Block(BlockId(env.scn, "judge_rule:if", node.id, "", 0), env.scn, "judge",
                     "rule", <<"rule">>, NoPayload) >>]

\* a traversal in which `end` stops only the sequence that holds it
RECURSIVE process_sorted_local(_, _, _)
process_sorted_local(nodes, st, env) ==
    IF nodes = <<>> THEN [ended |-> FALSE, st |-> st]
    ELSE
      LET node == Head(nodes)
          rest == Tail(nodes)
      IN  CASE node.type = "end" -> [ended |-> TRUE, st |-> st]
            [] node.type = "tool" /\ node.tool # "" ->
                 process_sorted_local(rest, ensure_tool_data(node.tool, st, env), env)
            [] node.type = "text" /\ node.text # <<>> ->
                 process_sorted_local(rest, add_text_block(node, st, env), env)
            [] node.type = "if" ->
                 LET decided == _try_eval_message_index_condition(
                                    node.cond, st.conv.message_index)
                 IN  IF decided = "true"
                       THEN process_sorted_local(rest,
                              process_sorted_local(SortNodes(node.children), st, env).st, env)
                     ELSE IF decided = "false"
                       THEN process_sorted_local(rest,
                              process_sorted_local(SortNodes(node.else_children), st, env).st, env)
                     ELSE process_sorted_local(rest, add_conditional_program(node, st, env), env)
            [] OTHER -> process_sorted_local(rest, st, env)

RECURSIVE process_sorted(_, _, _)
process_nodes(nodes, st, env) == process_sorted(SortNodes(nodes), st, env)
process_sorted(nodes, st, env) ==
    IF nodes = <<>> THEN [ended |-> FALSE, st |-> st]
    ELSE
      LET node == Head(nodes)
          rest == Tail(nodes)
      IN  CASE node.type = "end" -> [ended |-> TRUE, st |-> st]
            [] node.type = "tool" /\ node.tool # "" ->
                 process_sorted(rest, ensure_tool_data(node.tool, st, env), env)
            [] node.type = "text" /\ node.text # <<>> ->
                 process_sorted(rest, add_text_block(node, st, env), env)
            [] node.type = "if" ->
                 LET decided == _try_eval_message_index_condition(
                                    node.cond, st.conv.message_index)
                 IN  IF decided = "true"
                       THEN LET r == process_sorted(SortNodes(node.children), st, env)
                            IN  IF r.ended THEN r ELSE process_sorted(rest, r.st, env)
                     ELSE IF decided = "false"
                       THEN LET r == process_sorted(SortNodes(node.else_children), st, env)
                            IN  IF r.ended THEN r ELSE process_sorted(rest, r.st, env)
                     ELSE process_sorted(rest, add_conditional_program(node, st, env), env)
            [] OTHER -> process_sorted(rest, st, env)

\* the empty function (an empty dict)
EmptyMap == [x \in {} |-> EmptyFact]

\* result: [none, scenario_name, facts, instruction_blocks] and the state after
run_scenario_map(conv, scenario, tool_out) ==
    IF scenario.apply_only # NoneInt /\ conv.message_index # scenario.apply_only
      THEN [none |-> TRUE, scenario_name |-> scenario.name, facts |-> EmptyMap,
            instruction_blocks |-> <<>>, conv |-> conv, calls |-> 0]
    ELSE
      LET st0 == [facts |-> EmptyMap, blocks |-> <<>>, conv |-> conv, calls |-> 0]
          r == process_nodes(scenario.code, st0, [scn |-> scenario.name, tool_out |-> tool_out])
      IN  [none |-> r.st.blocks = <<>> /\ DOMAIN r.st.facts = {},
           scenario_name |-> scenario.name,
           facts |-> r.st.facts,
           instruction_blocks |-> r.st.blocks,
           conv |-> r.st.conv,
           calls |-> r.st.calls]

(***************************************************************************)
(* tools_subgraph.scenario_map_node and scenario_reduce_node.              *)
(* The registry is the sequence of its scenarios in insertion order.  The  *)
(* map tasks only suspend inside tools.call, whose functions are           *)
(* synchronous, so they run one after another on the turn's conv_state.    *)
(* tool_outs[i] is what the tool returns when scenario i calls it.         *)
(***************************************************************************)
RECURSIVE MapFrom(_, _, _, _)
MapFrom(i, scenarios, conv, tool_outs) ==
    IF i > Len(scenarios) THEN [results |-> <<>>, conv |-> conv]
    ELSE LET r == run_scenario_map(conv, scenarios[i], tool_outs[i])
             more == MapFrom(i + 1, scenarios, r.conv, tool_outs)
         IN  [results |-> (IF r.none THEN <<>> ELSE <<r>>) \o more.results,
              conv |-> more.conv]

Enabled(registry) == SelectSeq(registry, LAMBDA scn : scn.enabled)

scenario_map_node(registry, conv, tool_outs) ==
    MapFrom(1, Enabled(registry), conv, tool_outs)

\* a merge in which the later writer wins
MergeFactsLastWins(facts, more) ==
    [k \in DOMAIN facts \cup DOMAIN more |->
        IF k \in DOMAIN more THEN more[k] ELSE facts[k]]

\* facts.setdefault(k, v) for every fact of a result
MergeFacts(facts, more) ==
    [k \in DOMAIN facts \cup DOMAIN more |->
        IF k \in DOMAIN facts THEN facts[k] ELSE more[k]]

RECURSIVE scenario_reduce_node(_, _)
scenario_reduce_node(tools_context, results) ==
    IF results = <<>> THEN tools_context
    ELSE scenario_reduce_node(
           [tools_context EXCEPT
              !.facts = MergeFacts(@, Head(results).facts),
              !.instruction_blocks = @ \o Head(results).instruction_blocks],
           Tail(results))

EmptyToolsContext == [facts |-> EmptyMap, instruction_blocks |-> <<>>, applied |-> {}]

(***************************************************************************)
(* tools_subgraph._decide_condition_via_llm: the decider's reply is a      *)
(* chat_json result whose object is [decision, followup_question].         *)
(***************************************************************************)
Decisions == {"ignore", "true", "false", "unknown"}
EmptyDecision == [decision |-> "missing", followup_question |-> <<>>]

_decide_condition_via_llm(cj) ==
    LET decision == IF cj.isdict /\ cj.data.decision \in Decisions
                      THEN cj.data.decision ELSE "unknown"
        followup == IF cj.isdict THEN Strip(cj.data.followup_question) ELSE <<>>
    IN  [decision |-> decision, followup |-> followup]

IsConditional(b) == b.kind = "conditional" /\ b.target = "agent"

\* payload.condition or payload.condition_text or block.text or ""
ConditionOf(b) ==
    IF b.payload.condition.kind # "empty" THEN "set"
    ELSE IF b.text # <<>> THEN "set" ELSE "empty"

FollowupPrefix == <<"ask", ":">>

\* decide(block): (decision, applied_blocks); cj is the decider's reply
AppliedTexts(b, branch, texts) ==
    [i \in 1..Len(texts) |->
        Block([b.id EXCEPT !.tag = branch, !.idx = i], b.source, "agent", "raw",
              texts[i], NoPayload)]

decide(b, cj) ==
    IF ConditionOf(b) = "empty" THEN [decision |-> "ignore", applied |-> <<>>]
    ELSE
      LET d == _decide_condition_via_llm(cj)
      IN  [decision |-> d.decision,
           applied |->
             CASE d.decision = "true" -> AppliedTexts(b, "applied:true", b.payload.when_true)
               [] d.decision = "false" -> AppliedTexts(b, "applied:false", b.payload.when_false)
               [] d.decision = "unknown" /\ d.followup # <<>> ->
                    << Block([b.id EXCEPT !.tag = "applied:unknown:followup"], b.source,
                             "agent", "required", FollowupPrefix \o d.followup, NoPayload) >>
               [] OTHER -> <<>>]

DecisionRule(b) ==
    Block([b.id EXCEPT !.tag = "decision"], b.source, "judge", "rule", <<"rule">>, NoPayload)

\* one pass over the results of decide, in the order of conditional_blocks
RECURSIVE DecideFold(_, _, _, _)
DecideFold(conds, cjs, i, acc) ==
    IF i > Len(conds) THEN acc
    ELSE
      LET b == conds[i]
          r == decide(b, cjs[i])
          src == Strip(b.source)
          decs == IF src = <<>> THEN acc.scenario_decisions
                  ELSE IF src \in DOMAIN acc.scenario_decisions
                    THEN [acc.scenario_decisions EXCEPT ![src] = Append(@, r.decision)]
                  ELSE acc.scenario_decisions @@ (src :> <<r.decision>>)
      IN  DecideFold(conds, cjs, i + 1,
            [scenario_decisions |-> decs,
             new_blocks |-> IF r.decision # "ignore"
                              THEN Append(acc.new_blocks, DecisionRule(b))
                              ELSE acc.new_blocks,
             applied |-> acc.applied \o r.applied])

NoDecisions == [x \in {} |-> <<>>]

\* TRUE when a decider call that is made raises (asyncio.gather re-raises)
DecideRaises(conds, cjs) ==
    \E i \in 1..Len(conds) : ConditionOf(conds[i]) # "empty" /\ cjs[i].raised

conditions_decide_node(tools_context, cjs) ==
    LET blocks == tools_context.instruction_blocks
        conds == SelectSeq(blocks, IsConditional)
        acc == DecideFold(conds, cjs, 1,
                 [scenario_decisions |-> NoDecisions, new_blocks |-> <<>>, applied |-> <<>>])
        keep == SelectSeq(blocks, LAMBDA b : ~IsConditional(b))
    IN  [tools_context |-> [tools_context EXCEPT
                              !.instruction_blocks = keep \o acc.new_blocks \o acc.applied],
         scenario_decisions |-> acc.scenario_decisions,
         scenario_sources_with_condition |->
             {Strip(conds[i].source) : i \in 1..Len(conds)} \ {<<>>}]

(***************************************************************************)
(* tools_subgraph.scenario_summarize_to_imperatives.                       *)
(*   scenario_names : the scenario_name of every map result                *)
(*   cjs            : for every key of by_source, the summarizer's reply,  *)
(*                    a chat_json result whose object is                   *)
(*                    [agent_imperatives, judge_rules]                     *)
(***************************************************************************)
FallbackMax == 3
ImperativeMax == 8
UnknownScenario == <<"unknown_scenario">>

EmptySummary == [agent_imperatives |-> <<>>, judge_rules |-> <<>>]

IsRawAgent(b) == b.target = "agent" /\ b.kind = "raw"
IsRequiredAgent(b) == b.target = "agent" /\ b.kind = "required"

SeqToSet(q) == {q[i] : i \in 1..Len(q)}

_decisions_for(scenario_decisions, source) ==
    IF source \in DOMAIN scenario_decisions THEN SeqToSet(scenario_decisions[source]) ELSE {}

enabled_for_summarize(names, scenario_decisions, sources_with_condition) ==
    {n \in names :
        LET dec == _decisions_for(scenario_decisions, n)
        IN  \/ "true" \in dec \/ "false" \in dec
            \/ /\ "unknown" \notin dec
               /\ n \notin sources_with_condition}

enabled_overall(names, scenario_decisions, sources_with_condition) ==
    {n \in names :
        LET dec == _decisions_for(scenario_decisions, n)
        IN  \/ "true" \in dec \/ "false" \in dec
            \/ "unknown" \in dec
            \/ n \notin sources_with_condition}

\* lines 304-315: the filter by enabled_overall / enabled_for_summarize
PolicyKeeps(b, names, overall, for_summarize) ==
    LET src == Strip(b.source)
    IN  IF names = {} THEN TRUE
        ELSE IF src \in names /\ src \notin overall THEN FALSE
        ELSE IF src \in names /\ src \in overall /\ src \notin for_summarize
                /\ IsRawAgent(b) THEN FALSE
        ELSE TRUE

\* by_source: its keys in insertion order, and the stripped texts of a key
BySourceKey(b) == IF Strip(b.source) = <<>> THEN UnknownScenario ELSE Strip(b.source)

InBySource(b, names, for_summarize) ==
    ~(names # {} /\ BySourceKey(b) \in names /\ BySourceKey(b) \notin for_summarize)

RECURSIVE KeysInOrder(_, _)
KeysInOrder(blocks, seen) ==
    IF blocks = <<>> THEN <<>>
    ELSE LET k == BySourceKey(Head(blocks))
         IN  IF k \in seen THEN KeysInOrder(Tail(blocks), seen)
             ELSE <<k>> \o KeysInOrder(Tail(blocks), seen \cup {k})

TextsOf(blocks, key) ==
    LET mine == SelectSeq(blocks, LAMBDA b : BySourceKey(b) = key)
    IN  [i \in 1..Len(mine) |-> Strip(mine[i].text)]

\* [str(x).strip() for x in (xs or []) if str(x).strip()]
Cleaned(xs) ==
    LET stripped == [i \in 1..Len(xs) |-> Strip(xs[i])]
    IN  SelectSeq(stripped, LAMBDA x : x # <<>>)

Prefix(q, n) == SubSeq(q, 1, IF Len(q) < n THEN Len(q) ELSE n)

\* the required and rule blocks appended for one key of by_source
SummarizedBlocks(source, texts, cj) ==
    LET data == IF cj.isdict THEN cj.data ELSE EmptySummary
        imperatives0 == Cleaned(data.agent_imperatives)
        imperatives == Prefix(
            IF imperatives0 = <<>> THEN Prefix(Cleaned(texts), FallbackMax) ELSE imperatives0,
            ImperativeMax)
        rules == Prefix(Cleaned(data.judge_rules), ImperativeMax)
    IN  [i \in 1..Len(imperatives) |->
            Block(BlockId(source, "imperative", <<>>, "", i), source, "agent", "required",
                  imperatives[i], NoPayload)]
        \o
        [i \in 1..Len(rules) |->
            Block(BlockId(source, "judge_rule:summarized", <<>>, "", i), source, "judge",
                  "rule", rules[i], NoPayload)]

RECURSIVE SummarizeAll(_, _, _)
SummarizeAll(keys, raw, cjs) ==
    IF keys = <<>> THEN <<>>
    ELSE SummarizedBlocks(Head(keys), TextsOf(raw, Head(keys)), cjs[Head(keys)])
           \o SummarizeAll(Tail(keys), raw, cjs)

\* applied, from the blocks of the result
AppliedSources(blocks, names) ==
    {Strip(blocks[i].source) : i \in {j \in 1..Len(blocks) :
        /\ Strip(blocks[j].source) # <<>>
        /\ Strip(blocks[j].source) \in names
        /\ IsRequiredAgent(blocks[j])}}

\* the blocks left by the enable policy, and those of them that are summarized
PolicyBlocks(tools_context, scenario_decisions, sources_with_condition, names) ==
    LET overall == enabled_overall(names, scenario_decisions, sources_with_condition)
        for_summarize == enabled_for_summarize(names, scenario_decisions, sources_with_condition)
    IN  SelectSeq(tools_context.instruction_blocks,
                  LAMBDA b : PolicyKeeps(b, names, overall, for_summarize))

RawBlocks(blocks) == SelectSeq(blocks, LAMBDA b : IsRawAgent(b) /\ Strip(b.text) # <<>>)

SummarizeInput(blocks, scenario_decisions, sources_with_condition, names) ==
    LET for_summarize == enabled_for_summarize(names, scenario_decisions, sources_with_condition)
    IN  SelectSeq(RawBlocks(blocks), LAMBDA b : InBySource(b, names, for_summarize))

\* the keys of by_source, in order: one summarizer call is made for each
SummarizeKeys(tools_context, scenario_decisions, sources_with_condition, names) ==
    LET blocks == PolicyBlocks(tools_context, scenario_decisions, sources_with_condition, names)
    IN  KeysInOrder(SummarizeInput(blocks, scenario_decisions, sources_with_condition, names), {})

scenario_summarize_to_imperatives(tools_context, scenario_decisions, sources_with_condition, names, cjs) ==
    LET blocks == PolicyBlocks(tools_context, scenario_decisions, sources_with_condition, names)
        raw_blocks == RawBlocks(blocks)
    IN  IF raw_blocks = <<>>
          THEN [tools_context EXCEPT !.instruction_blocks = blocks,
                                     !.applied = AppliedSources(blocks, names)]
        ELSE
          LET input == SummarizeInput(blocks, scenario_decisions, sources_with_condition, names)
              keys == KeysInOrder(input, {})
              keep_blocks == SelectSeq(blocks, LAMBDA b : ~IsRawAgent(b))
              out_blocks == keep_blocks \o SummarizeAll(keys, input, cjs)
          IN  [tools_context EXCEPT
                 !.instruction_blocks = out_blocks,
                 !.applied = IF names # {} THEN AppliedSources(out_blocks, names) ELSE {}]

(***************************************************************************)
(* The replies of the provider, per caller.                                *)
(***************************************************************************)
\* judge_evaluate: {"action": ...}
JudgeData == {[action |-> a] : a \in {"pass", "revise", "bogus"}}
EmptyJudge == [action |-> "missing"]
JudgeOutcomes == JsonOutcomes(JudgeData, EmptyJudge)
JudgeResults == {chat_json(o1, o2, o3, EmptyJudge) : o1, o2, o3 \in JudgeOutcomes}

\* _decide_condition_via_llm: {"decision": ..., "followup_question": ...}
DecisionData ==
    {[decision |-> d, followup_question |-> f] :
        d \in Decisions \cup {"bogus"}, f \in {<<>>, <<" ", "f">>}}
DecisionOutcomes == JsonOutcomes(DecisionData, EmptyDecision)
DecisionResults ==
    {chat_json(o1, o2, o3, EmptyDecision) : o1, o2, o3 \in DecisionOutcomes}

\* summarize_one: {"agent_imperatives": [...], "judge_rules": [...]}
SummaryData ==
    {[agent_imperatives |-> i, judge_rules |-> r] :
        i \in {<<>>, << <<" ", "i">> >>, << <<" ">> >>}, r \in {<<>>, << <<"r">> >>}}
SummaryOutcomes == JsonOutcomes(SummaryData, EmptySummary)
SummaryResults ==
    {chat_json(o1, o2, o3, EmptySummary) : o1, o2, o3 \in SummaryOutcomes}

\* what get_user_data may return, and EmptyFact when the function raises
ToolResults == {EmptyFact, UserData("Ivan", 30)}
\* tools/user_data.py: the registered get_user_data returns a name and an age chosen
\* at random, and does not raise
get_user_data == {UserData("Ivan", 30), UserData("Anna", 40)}

(***************************************************************************)
(* Scenarios.                                                              *)
(***************************************************************************)
Scenario(name, code) == [name |-> name, enabled |-> TRUE, apply_only |-> NoneInt, code |-> code]

\* the bootstrap scenario (spec 8, end-to-end scenario 2)
Birthday ==
    Scenario(<<"b">>,
      << ToolNode(<<1>>, "get_user_data"),
         IfNode(<<2>>, FreeCond, << TextNode(<<2, 1>>, <<Lit("c"), DialogRef("name")>>) >>, <<>>),
         EndNode(<<3>>) >>)

DefaultRegistry == <<Birthday>>

(***************************************************************************)
(* State.                                                                  *)
(*   memKind     : which BaseConversationMemory main.py selected           *)
(*   mem_state   : the stored ConversationState of the conversation        *)
(*                 (present = the key / dict entry exists)                 *)
(*   mem_history : the stored history list of the conversation             *)
(*   registry    : ScenarioRegistry._scenarios, in insertion order         *)
(*   pc, turn    : per request slot, the graph node to run next and the    *)
(*                 AgentState of the request                               *)
(*   started     : number of /chat requests received                       *)
(*   outcome     : numbers of requests that returned / raised              *)
(*   summ        : the summarizer task launched by turn k                  *)
(*   tpc, tsub   : one invocation of the tools subgraph, node by node      *)
(*   eng         : runs of run_scenario_map / scenario_reduce on one state *)
(*   gw          : the LLM gateway: configured keys, rotation counter, and *)
(*                 the call in progress                                    *)
(*   mm          : the two memory implementations driven side by side      *)
(*   http        : the scenario endpoints: last request and its response   *)
(*   snap        : the registry as a dict of definition objects, one       *)
(*                 scenario_map in progress, and a reader of all()         *)
(*   sgr         : one SGR conversion: the step it is at, its trace        *)
(*                 directory and the HTTP response                         *)
(***************************************************************************)
VARIABLES memKind, mem_state, mem_history, registry, pc, turn, started, outcome, summ,
          tpc, tsub, eng, gw, mm, http, snap, sgr

vars == <<memKind, mem_state, mem_history, registry, pc, turn, started, outcome, summ,
          tpc, tsub, eng, gw, mm, http, snap, sgr>>

turnVars == <<memKind, mem_state, mem_history, pc, turn, started, outcome, summ>>
toolVars == <<tpc, tsub>>
auxVars == <<eng, gw, mm, http, snap, sgr>>

NoResponse == [returned |-> FALSE, answer |-> <<>>, chunks |-> <<>>, last_step_scenario |-> {}]

\* the AgentState of a request; fields after `judge_action` are bookkeeping
\* (examined: the text the last judge_evaluate put before the judge)
NewTurn(id) ==
    [id |-> id,
     conv |-> FreshState,
     kb_chunks |-> <<>>,
     applied |-> {},
     answer_draft |-> <<>>,
     answer |-> <<>>,
     judge_attempts |-> 0,
     judge_action |-> "none",
     examined |-> <<>>,
     kb_fails |-> 0,
     kb_requests |-> 0,
     kb_failed |-> FALSE,
     has_draft |-> FALSE,
     judge_calls |-> 0,
     revise_calls |-> 0,
     users |-> 0,
     assistants |-> 0,
     raised_in |-> "none",
     raised_kind |-> "none",
     response |-> NoResponse]

\* a background summarizer run: its node and the summary it holds
NoSumm == [pc |-> "none", summary |-> <<>>]

\* the ToolsSubgraphState of one run of the tools subgraph
\*   conds, decided : the conditional blocks decide() ran on, and its decisions
\*   by_source      : the (source, texts) of every summarize_one call
NoTsub ==
    [conv |-> FreshState, results |-> <<>>, names |-> {},
     tools_context |-> EmptyToolsContext,
     conds |-> <<>>, decided |-> <<>>, after_decide |-> <<>>,
     scenario_decisions |-> NoDecisions, sources_with_condition |-> {},
     by_source |-> <<>>]

InitTurns ==
    /\ memKind \in {"redis", "inmemory"}
    /\ mem_state = [present |-> FALSE, v |-> FreshState]
    /\ mem_history = <<>>
    /\ pc = [t \in Slots |-> "idle"]
    /\ turn = [t \in Slots |-> NewTurn(0)]
    /\ started = 0
    /\ outcome = [returned |-> 0, raised |-> 0]
    /\ summ = [k \in TurnIds |-> NoSumm]

\* the parts of the state a specification does not use
InitAux(used) ==
    /\ "eng" \in used \/ eng = <<>>
    /\ "gw" \in used \/ gw = <<>>
    /\ "mm" \in used \/ mm = <<>>
    /\ "http" \in used \/ http = <<>>
    /\ "snap" \in used \/ snap = <<>>
    /\ "sgr" \in used \/ sgr = <<>>

Init ==
    /\ InitTurns
    /\ registry = DefaultRegistry
    /\ tpc = "off"
    /\ tsub = NoTsub
    /\ InitAux({})

(***************************************************************************)
(* Conversation memory (memory.py).  InMemoryConversationMemory hands out  *)
(* the stored object itself, so a turn's conv_state is the stored state;   *)
(* RedisConversationMemory hands out a deserialized copy.                  *)
(***************************************************************************)
get_state == IF mem_state.present THEN mem_state.v ELSE FreshState

\* the store after get_state: only the in-memory one creates the entry
StoreAfterGet ==
    IF memKind = "inmemory" THEN [present |-> TRUE, v |-> get_state] ELSE mem_state

\* the turn's conv_state object
ConvOf(t) == IF memKind = "inmemory" THEN mem_state.v ELSE turn[t].conv

\* the store after the turn assigns `c` to fields of its conv_state
StoreAfterMutation(c) ==
    IF memKind = "inmemory" THEN [mem_state EXCEPT !.v = c] ELSE mem_state

\* the store after save_state(c)
save_state(c) == [present |-> TRUE, v |-> c]

\* schemas.HistoryItem: the timestamp of an item is represented by the number
\* of the request that created it
HistoryItem(role, content, id) == [role |-> role, content |-> content, turn |-> id]

\* an append that stores the item twice
append_history_twice(item) == Append(Append(mem_history, item), item)

append_history(item) == Append(mem_history, item)

(***************************************************************************)
(* The v1.0 turn graph (graph_pipeline.py).  pc[t] is the node that runs   *)
(* next; every node is one action; a node that raises ends the request     *)
(* (handle_chat and main.chat do not catch).                               *)
(***************************************************************************)
InFlight(t) == pc[t] \notin {"idle", "done", "failed"}

\* the exception leaves the graph: the AgentState of the request is dropped
Raise(t, node, kind) ==
    /\ pc' = [pc EXCEPT ![t] = "failed"]
    /\ turn' = [turn EXCEPT ![t] = [NewTurn(turn[t].id) EXCEPT !.raised_in = node,
                                                             !.raised_kind = kind]]
    /\ outcome' = [outcome EXCEPT !.raised = @ + 1]

\* main.chat -> handle_chat -> graph.ainvoke(initial); `limit` bounds the behaviour
Chat(t, limit) ==
    /\ pc[t] = "idle"
    /\ \A u \in Slots : u < t => pc[u] # "idle"
    /\ started < limit
    /\ started' = started + 1
    /\ pc' = [pc EXCEPT ![t] = "load_state"]
    /\ turn' = [turn EXCEPT ![t] = NewTurn(started + 1)]
    /\ UNCHANGED <<memKind, mem_state, mem_history, registry, outcome, summ, toolVars, auxVars>>

load_state(t) ==
    /\ pc[t] = "load_state"
    /\ mem_state' = StoreAfterGet
    /\ turn' = [turn EXCEPT ![t].conv = get_state,
                            ![t].judge_attempts = 0,
                            ![t].applied = {}]
    /\ pc' = [pc EXCEPT ![t] = "append_user"]
    /\ UNCHANGED <<memKind, mem_history, registry, started, outcome, summ, toolVars, auxVars>>

\* an increment by two
IncrementIndexTwice(c) == [c EXCEPT !.message_index = @ + 2]

\* conv_state.message_index += 1
IncrementIndex(c) == [c EXCEPT !.message_index = @ + 1]

append_user(t) ==
    LET c == IncrementIndex(ConvOf(t))
    IN  /\ pc[t] = "append_user"
        /\ mem_state' = StoreAfterMutation(c)
        /\ mem_history' = append_history(HistoryItem("user", UserMessage, turn[t].id))
        /\ turn' = [turn EXCEPT ![t].conv = c, ![t].users = @ + 1]
        /\ pc' = [pc EXCEPT ![t] = "retrieval"]
        /\ UNCHANGED <<memKind, registry, started, outcome, summ, toolVars, auxVars>>

retrieval(t) ==
    /\ pc[t] = "retrieval"
    /\ \E fails \in SearchFails, chunks \in ChunkLists :
          LET r == search(fails, chunks)
          IN  turn' = [turn EXCEPT ![t].kb_chunks = r.chunks,
                                   ![t].kb_fails = fails,
                                   ![t].kb_requests = r.attempts,
                                   ![t].kb_failed = r.failed]
    /\ pc' = [pc EXCEPT ![t] = "tools_subgraph"]
    /\ UNCHANGED <<memKind, mem_state, mem_history, registry, started, outcome, summ, toolVars, auxVars>>

\* tools_subgraph_node: the whole subgraph, init_tools_state to scenario_summarize
tools_subgraph_node(t) ==
    /\ pc[t] = "tools_subgraph"
    /\ \E tool_outs \in [1..Len(Enabled(registry)) -> get_user_data] :
       \E m \in {scenario_map_node(registry, ConvOf(t), tool_outs)} :
       \E names \in {{m.results[i].scenario_name : i \in 1..Len(m.results)}} :
       \E reduced \in {scenario_reduce_node(EmptyToolsContext, m.results)} :
       \E conds \in {SelectSeq(reduced.instruction_blocks, IsConditional)} :
       \E dcjs \in [1..Len(conds) -> DecisionResults] :
               IF DecideRaises(conds, dcjs)
                 THEN /\ Raise(t, "tools_subgraph", "llm")
                      /\ mem_state' = StoreAfterMutation(m.conv)
               ELSE
                 \E d \in {conditions_decide_node(reduced, dcjs)} :
                 \E keys \in {SummarizeKeys(d.tools_context, d.scenario_decisions,
                                           d.scenario_sources_with_condition, names)} :
                 \E scjs \in [SeqToSet(keys) -> SummaryResults] :
                       IF \E k \in SeqToSet(keys) : scjs[k].raised
                         THEN /\ Raise(t, "tools_subgraph", "llm")
                              /\ mem_state' = StoreAfterMutation(m.conv)
                       ELSE
                         /\ turn' = [turn EXCEPT
                               ![t].conv = m.conv,
                               ![t].applied = scenario_summarize_to_imperatives(
                                   d.tools_context, d.scenario_decisions,
                                   d.scenario_sources_with_condition, names, scjs).applied]
                         /\ mem_state' = StoreAfterMutation(m.conv)
                         /\ pc' = [pc EXCEPT ![t] = "build_messages"]
                         /\ UNCHANGED outcome
    /\ UNCHANGED <<memKind, mem_history, registry, started, summ, toolVars, auxVars>>

\* the prompt is read by the provider only, whose replies are unconstrained
build_messages(t) ==
    /\ pc[t] = "build_messages"
    /\ pc' = [pc EXCEPT ![t] = "llm_generate"]
    /\ UNCHANGED <<memKind, mem_state, mem_history, registry, turn, started, outcome, summ,
                   toolVars, auxVars>>

llm_generate(t) ==
    /\ pc[t] = "llm_generate"
    /\ \E o \in GenOutcomes :
         IF o.ok
           THEN /\ turn' = [turn EXCEPT ![t].answer_draft = Strip(o.text),
                                        ![t].has_draft = TRUE]
                /\ pc' = [pc EXCEPT ![t] = "judge_evaluate"]
                /\ UNCHANGED outcome
           ELSE Raise(t, "llm_generate", o.kind)
    /\ UNCHANGED <<memKind, mem_state, mem_history, registry, started, summ, toolVars, auxVars>>

\* a router without the cap on attempts
judge_router_uncapped(action, attempts) ==
    IF action = "revise" THEN "judge_revise" ELSE "persist_answer"

\* a router that allows one more revision than the cap
judge_router_late(action, attempts) ==
    IF action = "revise" /\ attempts <= JudgeCap THEN "judge_revise" ELSE "persist_answer"

judge_router(action, attempts) ==
    IF action = "revise" /\ attempts < JudgeCap THEN "judge_revise" ELSE "persist_answer"

judge_evaluate(t) ==
    /\ pc[t] = "judge_evaluate"
    /\ \E cj \in JudgeResults :
         LET action == IF cj.isdict /\ cj.data.action \in {"pass", "revise"}
                         THEN cj.data.action ELSE "pass"
         IN  IF cj.raised
               THEN /\ Raise(t, "judge_evaluate", "llm")
               ELSE /\ turn' = [turn EXCEPT ![t].judge_action = action,
                                            ![t].examined = OrText(turn[t].answer,
                                                                   turn[t].answer_draft),
                                            ![t].judge_calls = @ + 1]
                    /\ pc' = [pc EXCEPT ![t] = judge_router(action, turn[t].judge_attempts)]
                    /\ UNCHANGED outcome
    /\ UNCHANGED <<memKind, mem_state, mem_history, registry, started, summ, toolVars, auxVars>>

judge_revise(t) ==
    /\ pc[t] = "judge_revise"
    /\ \E o \in ReviseOutcomes :
         IF o.ok
           THEN /\ turn' = [turn EXCEPT ![t].answer = Strip(o.text),
                                        ![t].judge_attempts = @ + 1,
                                        ![t].revise_calls = @ + 1]
                /\ pc' = [pc EXCEPT ![t] = "judge_evaluate"]
                /\ UNCHANGED outcome
           ELSE /\ Raise(t, "judge_revise", o.kind)
    /\ UNCHANGED <<memKind, mem_state, mem_history, registry, started, summ, toolVars, auxVars>>

persist_answer(t) ==
    LET answer == Strip(OrText(turn[t].answer, turn[t].answer_draft))
    IN  /\ pc[t] = "persist_answer"
        /\ mem_history' = append_history(HistoryItem("assistant", answer, turn[t].id))
        /\ mem_state' = save_state(ConvOf(t))
        /\ turn' = [turn EXCEPT ![t].answer = answer, ![t].assistants = @ + 1]
        /\ pc' = [pc EXCEPT ![t] = "launch_summary"]
        /\ UNCHANGED <<memKind, registry, started, outcome, summ, toolVars, auxVars>>

\* launch_summary, END, and handle_chat's ChatResponse
launch_summary(t) ==
    /\ pc[t] = "launch_summary"
    /\ summ' = [summ EXCEPT ![turn[t].id].pc = "load_history"]
    /\ turn' = [turn EXCEPT ![t] =
                  [NewTurn(turn[t].id) EXCEPT
                     !.kb_failed = turn[t].kb_failed,
                     !.response =
                        [returned |-> TRUE,
                         answer |-> OrText(turn[t].answer, turn[t].answer_draft),
                         chunks |-> turn[t].kb_chunks,
                         last_step_scenario |-> turn[t].applied]]]
    /\ pc' = [pc EXCEPT ![t] = "done"]
    /\ outcome' = [outcome EXCEPT !.returned = @ + 1]
    /\ UNCHANGED <<memKind, mem_state, mem_history, registry, started, toolVars, auxVars>>

\* the request is over (response sent or error propagated); the slot is free
Finish(t) ==
    /\ pc[t] \in {"done", "failed"}
    /\ pc' = [pc EXCEPT ![t] = "idle"]
    /\ turn' = [turn EXCEPT ![t] = NewTurn(0)]
    /\ UNCHANGED <<memKind, mem_state, mem_history, registry, started, outcome, summ, toolVars, auxVars>>

(***************************************************************************)
(* The background summarizer (summarizer_v1_0.py), one run per launched    *)
(* task.  update_summary catches every exception of the run.               *)
(***************************************************************************)
DialogSummaryData == {[summary |-> <<"s", " ">>]}
EmptyDialogSummary == [summary |-> <<>>]
DialogSummaryOutcomes == JsonOutcomes(DialogSummaryData, EmptyDialogSummary)
DialogSummaryResults ==
    {chat_json(o1, o2, o3, EmptyDialogSummary) : o1, o2, o3 \in DialogSummaryOutcomes}

\* load_history and build_messages: skip when the history is empty
load_history(k) ==
    /\ summ[k].pc = "load_history"
    /\ summ' = [summ EXCEPT ![k].pc = IF mem_history = <<>> THEN "end" ELSE "llm_summary"]
    /\ UNCHANGED <<memKind, mem_state, mem_history, registry, pc, turn, started, outcome,
                   toolVars, auxVars>>

llm_summary(k) ==
    /\ summ[k].pc = "llm_summary"
    /\ \E cj \in DialogSummaryResults :
         summ' = [summ EXCEPT ![k] =
                    IF cj.raised THEN [pc |-> "end", summary |-> <<>>]
                    ELSE [pc |-> "save_summary",
                          summary |-> Strip(IF cj.isdict THEN cj.data.summary ELSE <<>>)]]
    /\ UNCHANGED <<memKind, mem_state, mem_history, registry, pc, turn, started, outcome,
                   toolVars, auxVars>>

\* a save_summary that writes a new ConversationState holding the summary
save_summary_fresh(k) ==
    /\ summ[k].pc = "save_summary"
    /\ mem_state' = save_state([FreshState EXCEPT !.summary = summ[k].summary])
    /\ summ' = [summ EXCEPT ![k] = [pc |-> "end", summary |-> <<>>]]
    /\ UNCHANGED <<memKind, mem_history, registry, pc, turn, started, outcome, toolVars, auxVars>>

\* get_state, assignment of the summary and save_state run without suspension; a
\* Redis command may raise (memory_error), which ends the run in update_summary's
\* handler with nothing written
save_summary(k) ==
    /\ summ[k].pc = "save_summary"
    /\ \E memory_error \in BOOLEAN :
          IF memory_error /\ memKind = "redis"
            THEN UNCHANGED mem_state
            ELSE mem_state' = save_state([get_state EXCEPT !.summary = summ[k].summary])
    /\ summ' = [summ EXCEPT ![k] = [pc |-> "end", summary |-> <<>>]]
    /\ UNCHANGED <<memKind, mem_history, registry, pc, turn, started, outcome, toolVars, auxVars>>

TurnStep(t) ==
    \/ load_state(t)
    \/ append_user(t)
    \/ retrieval(t)
    \/ tools_subgraph_node(t)
    \/ build_messages(t)
    \/ llm_generate(t)
    \/ judge_evaluate(t)
    \/ judge_revise(t)
    \/ persist_answer(t)
    \/ launch_summary(t)
    \/ Finish(t)

SummStep(k) ==
    \/ load_history(k)
    \/ llm_summary(k)
    \/ save_summary(k)

\* requests arrive at any time: nothing serializes them
Next ==
    \/ \E t \in Slots : Chat(t, MaxTurns)
    \/ \E t \in Slots : TurnStep(t)
    \/ \E k \in TurnIds : SummStep(k)

Spec == Init /\ [][Next]_vars

\* a client that sends a request only after the previous one has ended
NextSerial ==
    \/ \E t \in Slots : Chat(t, SerialTurns) /\ \A u \in Slots : pc[u] = "idle"
    \/ \E t \in Slots : TurnStep(t)
    \/ \E k \in TurnIds : SummStep(k)

SpecSerial == Init /\ [][NextSerial]_vars

(***************************************************************************)
(* The tools subgraph node by node (tools_subgraph.py), on any registry    *)
(* of up to MaxScenarios scenarios and any reply of the tools and of the   *)
(* provider.                                                               *)
(***************************************************************************)
MaxScenarios == 2

\* unconditional text, then an `if` the engine cannot decide, with two texts
ScnA ==
    Scenario(<<"A">>,
      << TextNode(<<1>>, <<Lit("t")>>),
         IfNode(<<2>>, FreeCond,
                << TextNode(<<2, 1>>, <<Lit("y")>>), TextNode(<<2, 2>>, <<Lit("z")>>) >>,
                << TextNode(<<2, 3>>, <<Lit("n")>>) >>) >>)

\* two undecided `if`s; one branch text is whitespace
ScnB ==
    Scenario(<<"B">>,
      << IfNode(<<1>>, FreeCond, << TextNode(<<1, 1>>, <<Lit(WS)>>) >>, <<>>),
         IfNode(<<2>>, FreeCond, <<>>, << TextNode(<<2, 1>>, <<Lit("n")>>) >>) >>)

\* a single unconditional text
ScnU == Scenario(<<"U">>, << TextNode(<<1>>, <<Lit("u")>>) >>)

\* a name with trailing whitespace
ScnP ==
    Scenario(<<"P", WS>>,
      << TextNode(<<1>>, <<Lit("t")>>),
         IfNode(<<2>>, FreeCond, << TextNode(<<2, 1>>, <<Lit("y")>>) >>, <<>>) >>)

Catalog == {ScnA, ScnB, ScnU, ScnP, Birthday}

\* ScenarioRegistry is a dict keyed by name: its scenarios have distinct names
Registries ==
    UNION {{r \in [1..n -> Catalog] : \A i, j \in 1..n : i # j => r[i].name # r[j].name} :
           n \in 0..MaxScenarios}

\* the conv_state a turn enters the subgraph with (after append_user)
ToolsConvs ==
    {[FreshState EXCEPT !.message_index = 1],
     [FreshState EXCEPT !.message_index = 2, !.name = "Ivan", !.age = 30]}

InitTools ==
    /\ InitTurns
    /\ registry \in Registries
    /\ tpc = "init_tools_state"
    /\ tsub \in {[NoTsub EXCEPT !.conv = c] : c \in ToolsConvs}
    /\ InitAux({})

init_tools_state ==
    /\ tpc = "init_tools_state"
    /\ tsub' = [tsub EXCEPT !.tools_context = EmptyToolsContext]
    /\ tpc' = "scenario_map"
    /\ UNCHANGED <<turnVars, registry, auxVars>>

ScenarioMap ==
    /\ tpc = "scenario_map"
    /\ \E tool_outs \in [1..Len(Enabled(registry)) -> ToolResults] :
       \E m \in {scenario_map_node(registry, tsub.conv, tool_outs)} :
          tsub' = [tsub EXCEPT
                     !.conv = m.conv,
                     !.results = m.results,
                     !.names = {m.results[i].scenario_name : i \in 1..Len(m.results)}]
    /\ tpc' = "scenario_reduce"
    /\ UNCHANGED <<turnVars, registry, auxVars>>

ScenarioReduce ==
    /\ tpc = "scenario_reduce"
    /\ tsub' = [tsub EXCEPT
                  !.tools_context = scenario_reduce_node(tsub.tools_context, tsub.results)]
    /\ tpc' = "conditions_decide"
    /\ UNCHANGED <<turnVars, registry, auxVars>>

ConditionsDecide ==
    /\ tpc = "conditions_decide"
    /\ \E conds \in {SelectSeq(tsub.tools_context.instruction_blocks, IsConditional)} :
       \E cjs \in [1..Len(conds) -> DecisionResults] :
          IF DecideRaises(conds, cjs)
            THEN /\ tpc' = "raised"
                 /\ UNCHANGED tsub
          ELSE
            \E d \in {conditions_decide_node(tsub.tools_context, cjs)} :
              /\ tsub' = [tsub EXCEPT
                    !.tools_context = d.tools_context,
                    !.conds = conds,
                    !.decided = [i \in 1..Len(conds) |->
                                   IF ConditionOf(conds[i]) = "empty"
                                     THEN [decision |-> "ignore", followup |-> <<>>]
                                     ELSE _decide_condition_via_llm(cjs[i])],
                    !.after_decide = d.tools_context.instruction_blocks,
                    !.scenario_decisions = d.scenario_decisions,
                    !.sources_with_condition = d.scenario_sources_with_condition]
              /\ tpc' = "scenario_summarize"
    /\ UNCHANGED <<turnVars, registry, auxVars>>

ScenarioSummarize ==
    /\ tpc = "scenario_summarize"
    /\ \E keys \in {SummarizeKeys(tsub.tools_context, tsub.scenario_decisions,
                                  tsub.sources_with_condition, tsub.names)} :
       \E cjs \in [SeqToSet(keys) -> SummaryResults] :
          IF \E k \in SeqToSet(keys) : cjs[k].raised
            THEN /\ tpc' = "raised"
                 /\ UNCHANGED tsub
          ELSE
            /\ tsub' = [tsub EXCEPT
                  !.tools_context = scenario_summarize_to_imperatives(
                      tsub.tools_context, tsub.scenario_decisions,
                      tsub.sources_with_condition, tsub.names, cjs),
                  !.by_source = keys]
            /\ tpc' = "end"
    /\ UNCHANGED <<turnVars, registry, auxVars>>

NextTools ==
    \/ init_tools_state
    \/ ScenarioMap
    \/ ScenarioReduce
    \/ ConditionsDecide
    \/ ScenarioSummarize

SpecTools == InitTools /\ [][NextTools]_vars

(***************************************************************************)
(* Properties of the turn graph.                                           *)
(***************************************************************************)

\* C1 (SpecSerial): after N turns that ran to completion one after another on a
\* fresh conversation, the stored state has message_index = N and the history has
\* 2N items with roles user, assistant, user, assistant, ...; inside a turn the
\* index has been incremented exactly once, however often the judge loop ran.
C1_MonotonicIndex ==
    outcome.raised = 0 =>
      /\ (\A t \in Slots : pc[t] \in {"idle", "done"}) =>
            /\ get_state.message_index = outcome.returned
            /\ Len(mem_history) = 2 * outcome.returned
            /\ \A i \in 1..Len(mem_history) :
                  mem_history[i].role = IF i % 2 = 1 THEN "user" ELSE "assistant"
      /\ \A t \in Slots :
            pc[t] \in {"retrieval", "tools_subgraph", "build_messages", "llm_generate",
                       "judge_evaluate", "judge_revise", "persist_answer",
                       "launch_summary"}
              => ConvOf(t).message_index = outcome.returned + 1

\* C1 witness: SerialTurns turns completed in sequence, one of them with a revised answer
C1_Witness ==
    /\ outcome.returned = SerialTurns
    /\ outcome.raised = 0
    /\ \A t \in Slots : pc[t] = "idle"
    /\ get_state.message_index = SerialTurns
    /\ \E i \in 1..Len(mem_history) : mem_history[i].content = <<"b">>

\* C2 (Spec): turns of one conversation are serial end to end: no turn is between
\* its load_state and its persist_answer while another one is, and after two
\* completed turns the index is 2 and the history is user, assistant, user,
\* assistant.
C2_SerialEndToEnd ==
    /\ \A t, u \in Slots :
          t # u =>
            ~ /\ pc[t] \in {"append_user", "retrieval", "tools_subgraph", "build_messages",
                            "llm_generate", "judge_evaluate", "judge_revise",
                            "persist_answer"}
              /\ pc[u] \in {"append_user", "retrieval", "tools_subgraph", "build_messages",
                            "llm_generate", "judge_evaluate", "judge_revise",
                            "persist_answer"}
    /\ (outcome.returned = 2 /\ outcome.raised = 0 /\ \A t \in Slots : pc[t] = "idle") =>
          /\ get_state.message_index = 2
          /\ [i \in 1..Len(mem_history) |-> mem_history[i].role]
               = <<"user", "assistant", "user", "assistant">>

\* C3 (Spec): in the history every assistant item of a turn comes after the user
\* item of that turn and there is at most one per turn; a turn that has not passed
\* persist_answer has no assistant item, and persist_answer runs only with a draft.
C3_HistoryOrdering ==
    /\ \A i \in 1..Len(mem_history) :
          mem_history[i].role = "assistant" =>
            /\ \E j \in 1..(i - 1) :
                  /\ mem_history[j].role = "user"
                  /\ mem_history[j].turn = mem_history[i].turn
            /\ \A j \in 1..Len(mem_history) :
                  (mem_history[j].role = "assistant"
                     /\ mem_history[j].turn = mem_history[i].turn) => j = i
    /\ \A t \in Slots :
          /\ pc[t] \in {"load_state", "append_user", "retrieval", "tools_subgraph",
                        "build_messages", "llm_generate", "judge_evaluate", "judge_revise",
                        "persist_answer"}
               => ~ \E i \in 1..Len(mem_history) :
                       /\ mem_history[i].role = "assistant"
                       /\ mem_history[i].turn = turn[t].id
          /\ pc[t] \in {"load_state", "append_user", "retrieval", "tools_subgraph",
                        "build_messages", "llm_generate"} => ~turn[t].has_draft
          /\ pc[t] = "persist_answer" => turn[t].has_draft
          /\ turn[t].assistants <= 1
          /\ turn[t].assistants = 1 => turn[t].users = 1

\* C3 witness: two overlapping turns, both user items appended before both assistant items
C3_Witness ==
    /\ Len(mem_history) = 4
    /\ [i \in 1..4 |-> mem_history[i].role] = <<"user", "user", "assistant", "assistant">>
    /\ mem_history[3].turn # mem_history[4].turn

\* C4 (Spec): judge_revise runs at most 2 times in a turn, judge_attempts is the
\* number of its runs so far, and with judge_attempts >= 2 the router never
\* chooses judge_revise.
C4_BoundedJudgeLoop ==
    \A t \in Slots :
       /\ turn[t].revise_calls <= 2
       /\ turn[t].judge_attempts = turn[t].revise_calls
       /\ pc[t] = "judge_revise" => turn[t].judge_attempts < 2
       /\ turn[t].judge_attempts >= 2 =>
             pc[t] \in {"judge_evaluate", "persist_answer", "launch_summary"}

\* C4 witness: after two revisions the judge answers revise again and the turn persists
C4_Witness ==
    \E t \in Slots :
       /\ pc[t] = "persist_answer"
       /\ turn[t].revise_calls = 2
       /\ turn[t].judge_calls = 3
       /\ turn[t].judge_action = "revise"

\* C5 (Spec): a failure of the generation call does not end the request with an
\* error: the turn answers with an apology and returns.
C5_GenerationFailureAnswered ==
    \A t \in Slots : pc[t] = "failed" => turn[t].raised_in # "llm_generate"

\* C6 (Spec): a failure of a call made by judge_evaluate or judge_revise does not
\* end the request with an error: the turn goes on to persist_answer.
C6_JudgeFailurePersists ==
    \A t \in Slots :
       pc[t] = "failed" => turn[t].raised_in \notin {"judge_evaluate", "judge_revise"}

\* C7 (Spec): a search makes at most 8 requests and stops at the first one that
\* succeeds; when all fail it returns the empty list, the turn does not fail in
\* retrieval, and the response of the turn has chunks = [].
C7_RetrievalResilience ==
    \A t \in Slots :
       /\ turn[t].kb_requests <= 8
       /\ turn[t].raised_in # "retrieval"
       /\ pc[t] \in {"tools_subgraph", "build_messages", "llm_generate", "judge_evaluate",
                     "judge_revise", "persist_answer", "launch_summary"} =>
             /\ turn[t].kb_failed <=> turn[t].kb_fails >= 8
             /\ turn[t].kb_failed => turn[t].kb_chunks = <<>> /\ turn[t].kb_requests = 8
             /\ ~turn[t].kb_failed => turn[t].kb_requests = turn[t].kb_fails + 1
       /\ (pc[t] = "done" /\ turn[t].kb_failed) =>
             turn[t].response.returned /\ turn[t].response.chunks = <<>>

\* C7 witness: a turn whose every retrieval request failed has returned its response
C7_Witness ==
    \E t \in Slots :
       /\ pc[t] = "done"
       /\ turn[t].kb_failed
       /\ turn[t].response.returned
       /\ turn[t].response.chunks = <<>>
       /\ turn[t].response.answer # <<>>

(***************************************************************************)
(* Properties of the tools subgraph.                                       *)
(***************************************************************************)

\* C8 (SpecTools): after conditions_decide, the agent-targeted blocks derived from
\* a conditional block B are: for true (false) one raw block per when_true
\* (when_false) text, in order, and nothing else; for ignore none; for unknown
\* exactly one required block that ends with the followup question; and no
\* conditional/agent block is left.
C8_DecideEffects ==
    /\ \A i \in 1..Len(tsub.conds) :
          LET b == tsub.conds[i]
              d == tsub.decided[i]
              derived == SelectSeq(tsub.after_decide,
                            LAMBDA x : /\ x.target = "agent"
                                       /\ x.id.scn = b.id.scn
                                       /\ x.id.part = b.id.part
                                       /\ x.id.node = b.id.node)
          IN  CASE d.decision = "true" ->
                     /\ Len(derived) = Len(b.payload.when_true)
                     /\ \A k \in 1..Len(derived) :
                           derived[k].kind = "raw" /\ derived[k].text = b.payload.when_true[k]
                [] d.decision = "false" ->
                     /\ Len(derived) = Len(b.payload.when_false)
                     /\ \A k \in 1..Len(derived) :
                           derived[k].kind = "raw" /\ derived[k].text = b.payload.when_false[k]
                [] d.decision = "ignore" -> derived = <<>>
                [] OTHER ->
                     /\ Len(derived) = 1
                     /\ derived[1].kind = "required"
                     /\ derived[1].text = FollowupPrefix \o d.followup
    /\ \A j \in 1..Len(tsub.after_decide) : ~IsConditional(tsub.after_decide[j])

\* C9 (SpecTools): after scenario_summarize_to_imperatives no raw/agent block is
\* left, and applied is the set of the scenario names that are the source of a
\* required/agent block of the result.
C9_NoRawAfterSummarize ==
    tpc = "end" =>
      LET out == tsub.tools_context.instruction_blocks
      IN  /\ \A j \in 1..Len(out) : ~IsRawAgent(out[j])
          /\ tsub.tools_context.applied =
                {n \in tsub.names :
                    \E j \in 1..Len(out) : out[j].source = n /\ IsRequiredAgent(out[j])}

\* C10 (SpecTools): the enable policy per scenario n, by the decisions of the
\* conditional blocks of n: with a true or a false its raw/agent texts are
\* summarized; else with an unknown only followup blocks and judge rules of n are
\* left and nothing of n is summarized; else without conditional blocks it is
\* summarized as it is; else (ignore only) no block of n is left and n is not in
\* applied.
C10_EnablePolicy ==
    tpc = "end" =>
      \A n \in tsub.names :
         LET out == tsub.tools_context.instruction_blocks
             mine == SelectSeq(out, LAMBDA x : x.source = n \/ x.source = Strip(n))
             had_raw == \E j \in 1..Len(tsub.after_decide) :
                           /\ tsub.after_decide[j].source = n
                           /\ IsRawAgent(tsub.after_decide[j])
             dec == {tsub.decided[i].decision :
                        i \in {k \in 1..Len(tsub.conds) : tsub.conds[k].source = n}}
             summarized == Strip(n) \in SeqToSet(tsub.by_source)
             compressed ==
                /\ had_raw => summarized
                /\ \A j \in 1..Len(mine) : ~IsRawAgent(mine[j])
         IN  IF "true" \in dec \/ "false" \in dec THEN compressed
             ELSE IF "unknown" \in dec
               THEN /\ ~summarized
                    /\ \A j \in 1..Len(mine) :
                          mine[j].target = "agent" =>
                            /\ mine[j].kind = "required"
                            /\ mine[j].id.tag = "applied:unknown:followup"
             ELSE IF dec = {} THEN compressed
             ELSE /\ mine = <<>>
                  /\ n \notin tsub.tools_context.applied

(***************************************************************************)
(* The scenario engine on its own: run_scenario_map twice for one scenario *)
(* on the same state object, then scenario_map and scenario_reduce over    *)
(* the whole registry.  The tool stub is deterministic: scenario i gets    *)
(* tool_outs[i] every time it calls the tool.                              *)
(***************************************************************************)
\* a tool call, a text with a field placeholder and a text with the whole dict
EngTool ==
    Scenario(<<"T">>,
      << ToolNode(<<1>>, "get_user_data"),
         TextNode(<<2>>, <<Lit("h"), ToolRef("get_user_data", "name")>>),
         TextNode(<<3>>, <<ToolRef("get_user_data", "")>>) >>)

\* a second scenario that needs the same tool
EngTool2 ==
    Scenario(<<"V">>,
      << ToolNode(<<1>>, "get_user_data"),
         TextNode(<<2>>, <<ToolRef("get_user_data", "age")>>) >>)

\* `end` inside both branches' parent sequence and inside the true branch of an
\* `if` that is decided from message_index
EngEnd ==
    Scenario(<<"E">>,
      << TextNode(<<5>>, <<Lit("q")>>),
         EndNode(<<4>>),
         TextNode(<<3>>, <<Lit("p")>>),
         IfNode(<<2>>, FirstCond,
                << TextNode(<<2, 1>>, <<Lit("y")>>), EndNode(<<2, 2>>),
                   TextNode(<<2, 3>>, <<Lit("z")>>) >>,
                << TextNode(<<2, 4>>, <<Lit("n")>>) >>),
         TextNode(<<1>>, <<Lit("a")>>) >>)

EngineCatalog == {EngTool, EngTool2, EngEnd, ScnA}

EngineRegistries ==
    UNION {{r \in [1..n -> EngineCatalog] : \A i, j \in 1..n : i # j => r[i].name # r[j].name} :
           n \in 1..MaxScenarios}

NoRun == run_scenario_map(FreshState, Scenario(<<>>, <<>>), EmptyFact)

InitEngine ==
    /\ InitTurns
    /\ registry \in EngineRegistries
    /\ tpc = "off"
    /\ tsub = NoTsub
    /\ eng \in {[pc |-> "run_first", conv |-> c, scn |-> i, tool_outs |-> o,
                 first |-> NoRun, second |-> NoRun, results |-> <<>>,
                 tools_context |-> EmptyToolsContext] :
                  c \in ToolsConvs, i \in 1..Len(registry),
                  o \in [1..Len(registry) -> ToolResults]}
    /\ InitAux({"eng"})

\* run_scenario_map(state, scenario, tools) for scenario eng.scn
RunFirst ==
    /\ eng.pc = "run_first"
    /\ \E r \in {run_scenario_map(eng.conv, registry[eng.scn], eng.tool_outs[eng.scn])} :
          eng' = [eng EXCEPT !.pc = "run_second", !.first = r]
    /\ UNCHANGED <<turnVars, registry, toolVars, gw, mm, http, snap, sgr>>

\* the same call again: the state object is the one the first run left behind
RunSecond ==
    /\ eng.pc = "run_second"
    /\ \E r \in {run_scenario_map(eng.first.conv, registry[eng.scn], eng.tool_outs[eng.scn])} :
          eng' = [eng EXCEPT !.pc = "scenario_map", !.second = r]
    /\ UNCHANGED <<turnVars, registry, toolVars, gw, mm, http, snap, sgr>>

\* scenario_map_node on a state as the turn delivers it
EngineMap ==
    /\ eng.pc = "scenario_map"
    /\ \E m \in {scenario_map_node(registry, eng.conv, eng.tool_outs)} :
          eng' = [eng EXCEPT !.pc = "scenario_reduce", !.results = m.results]
    /\ UNCHANGED <<turnVars, registry, toolVars, gw, mm, http, snap, sgr>>

EngineReduce ==
    /\ eng.pc = "scenario_reduce"
    /\ eng' = [eng EXCEPT !.pc = "done",
                          !.tools_context = scenario_reduce_node(EmptyToolsContext, eng.results)]
    /\ UNCHANGED <<turnVars, registry, toolVars, gw, mm, http, snap, sgr>>

NextEngine == RunFirst \/ RunSecond \/ EngineMap \/ EngineReduce

SpecEngine == InitEngine /\ [][NextEngine]_vars

\* C11 (SpecEngine): running run_scenario_map twice for the same scenario on the
\* same ConversationState with a deterministic tool stub gives equal results: the
\* same facts map and the same instruction blocks, also when the first run
\* backfilled the profile and the second run builds the fact from the profile.
C11_ScenarioPurity ==
    eng.pc \notin {"run_first", "run_second"} =>
        /\ eng.second.none = eng.first.none
        /\ eng.second.facts = eng.first.facts
        /\ eng.second.instruction_blocks = eng.first.instruction_blocks

\* C12 (SpecEngine): in scenario E an `end` stops only the sequence that holds
\* it: the nodes sorted after an `end` (5 after 4, 2.3 after 2.2) are never
\* processed, and when the `end` 2.2 sits in the chosen branch of the decided
\* `if` 2, node 3, which follows the `if` in the parent sequence, is processed.
C12_EndTerminatesSequence ==
    (eng.pc # "run_first" /\ registry[eng.scn] = EngEnd) =>
        LET blocks == eng.first.instruction_blocks
            ids == {blocks[i].id.node : i \in 1..Len(blocks)}
        IN  /\ <<5>> \notin ids
            /\ <<2, 3>> \notin ids
            /\ <<1>> \in ids
            /\ <<3>> \in ids
            /\ IF eng.conv.message_index = 1 THEN <<2, 1>> \in ids ELSE <<2, 4>> \in ids

\* C12 amended (SpecEngine): an `end` stops the whole scenario run: the nodes
\* sorted after an `end` are never processed, and when the `end` 2.2 sits in the
\* chosen branch of the decided `if` 2, node 3, which follows the `if` in the
\* parent sequence, is not processed either; in the other branch the run goes on
\* to node 3 and stops at the `end` 4.
C12_EndTerminatesScenario ==
    (eng.pc # "run_first" /\ registry[eng.scn] = EngEnd) =>
        LET blocks == eng.first.instruction_blocks
            ids == {blocks[i].id.node : i \in 1..Len(blocks)}
        IN  IF eng.conv.message_index = 1
              THEN ids = {<<1>>, <<2, 1>>}
              ELSE ids = {<<1>>, <<2, 4>>, <<3>>}

\* C12 witness: the run took the branch that holds the `end` and stopped there
C12_Witness ==
    /\ eng.pc = "run_second"
    /\ registry[eng.scn] = EngEnd
    /\ eng.conv.message_index = 1
    /\ Len(eng.first.instruction_blocks) = 2
    /\ eng.first.instruction_blocks[2].text = <<"y">>

\* C13 (SpecEngine): scenario_reduce keeps, for every fact key, the fact of the
\* first map result (in registry order) that has the key, and the merged
\* instruction blocks are the per-scenario block lists concatenated in registry
\* order, each in its own order.
C13_ReduceFirstWriterWins ==
    eng.pc = "done" =>
        LET results == eng.results
            n == Len(results)
            enabled == Enabled(registry)
            pos(name) == CHOOSE i \in 1..Len(enabled) : enabled[i].name = name
            Off[i \in 1..(n + 1)] ==
                IF i = 1 THEN 0 ELSE Off[i - 1] + Len(results[i - 1].instruction_blocks)
            facts == eng.tools_context.facts
            blocks == eng.tools_context.instruction_blocks
        IN  /\ \A i, j \in 1..n :
                  i < j => pos(results[i].scenario_name) < pos(results[j].scenario_name)
            /\ DOMAIN facts = UNION {DOMAIN results[i].facts : i \in 1..n}
            /\ \A k \in DOMAIN facts :
                  \E i \in 1..n :
                     /\ k \in DOMAIN results[i].facts
                     /\ \A j \in 1..(i - 1) : k \notin DOMAIN results[j].facts
                     /\ facts[k] = results[i].facts[k]
            /\ Len(blocks) = Off[n + 1]
            /\ \A i \in 1..n :
                  \A k \in 1..Len(results[i].instruction_blocks) :
                     blocks[Off[i] + k] = results[i].instruction_blocks[k]

\* C13 witness: two scenarios produced different facts under the same key and the
\* merged fact is the first one's
C13_Witness ==
    /\ eng.pc = "done"
    /\ Len(eng.results) = 2
    /\ "get_user_data" \in DOMAIN eng.results[1].facts
    /\ "get_user_data" \in DOMAIN eng.results[2].facts
    /\ eng.results[1].facts["get_user_data"] # eng.results[2].facts["get_user_data"]
    /\ eng.tools_context.facts["get_user_data"] = eng.results[1].facts["get_user_data"]
    /\ Len(eng.tools_context.instruction_blocks) > Len(eng.results[1].instruction_blocks)

(***************************************************************************)
(* The LLM gateway clients and the key rotation of runtime_config.py.      *)
(*   gw.n       : number of configured keys; key i is keys[i], i in 0..n-1 *)
(*   gw.redis   : whether _get_redis() obtains a client                    *)
(*   gw.counter : the rotation counter stored in Redis                     *)
(*   gw.calls   : calls started so far                                     *)
(*   gw.prev_ok : the key that succeeded in the previous call, if it did   *)
(*   gw.call    : the call in progress: its client, position, the keys of  *)
(*                its requests, the rate-limit errors it received, the     *)
(*                rotation index when it started, the error it raised     *)
(***************************************************************************)
MaxKeys == 3
MaxCalls == 3

NoCall == [client |-> "none", pc |-> "idle", used |-> <<>>, rate_errors |-> 0,
           start |-> 0, err |-> "none"]

\* the replies of the gateway to one request
GatewayReplies == {"ok", "rate", "other"}

\* an index that is read from the counter whether or not Redis answers
rotation_index_unguarded(g) == g.counter

\* falls back to 0 without Redis
get_openai_api_key_rotation_index(g) == IF g.redis = "up" THEN g.counter ELSE 0

\* keys[idx % len(keys)]
get_effective_openai_api_key(g) == get_openai_api_key_rotation_index(g) % g.n

\* a mark that skips a key
mark_skips_a_key(g) == IF g.n <= 1 THEN g.counter ELSE g.counter + 2

\* the counter after mark_openai_api_key_rate_limited(): INCR in Redis, a no-op
\* with one key or without Redis
mark_openai_api_key_rate_limited(g) ==
    IF g.n <= 1 THEN g.counter
    ELSE IF g.redis # "up" THEN g.counter
    ELSE g.counter + 1

InitKeys ==
    /\ InitTurns
    /\ registry = DefaultRegistry
    /\ tpc = "off"
    /\ tsub = NoTsub
    /\ gw \in {[n |-> n, redis |-> r, counter |-> c, calls |-> 0, prev_ok |-> NoneInt,
                call |-> NoCall] : n \in 1..MaxKeys, r \in {"up", "down"}, c \in 0..1}
    /\ InitAux({"gw"})

\* a caller enters complete_chat (v0.1) or _OpenRouterClient.chat (v1.0)
StartCall ==
    /\ gw.call.pc \in {"idle", "returned", "raised"}
    /\ gw.calls < MaxCalls
    /\ \E client \in {"v0_1", "v1_0"} :
          gw' = [gw EXCEPT !.calls = @ + 1,
                           !.call = [NoCall EXCEPT
                                       !.client = client, !.pc = "request",
                                       !.start = get_openai_api_key_rotation_index(gw)]]
    /\ UNCHANGED <<turnVars, registry, toolVars, eng, mm, http, snap, sgr>>

\* LLMClient.complete_chat: one iteration of `for _attempt in range(max(1, len(keys)))`
complete_chat ==
    /\ gw.call.client = "v0_1"
    /\ gw.call.pc = "request"
    /\ \E reply \in GatewayReplies :
       \E key \in {get_effective_openai_api_key(gw)} :
       \E used \in {Append(gw.call.used, key)} :
          gw' = CASE reply = "ok" ->
                       [gw EXCEPT !.prev_ok = key,
                                  !.call = [@ EXCEPT !.used = used, !.pc = "returned"]]
                  [] reply = "rate" ->
                       [gw EXCEPT !.counter = mark_openai_api_key_rate_limited(gw),
                                  !.prev_ok = IF Len(used) < gw.n THEN @ ELSE NoneInt,
                                  !.call = [@ EXCEPT
                                     !.used = used,
                                     !.rate_errors = @ + 1,
                                     !.pc = IF Len(used) < gw.n THEN "request" ELSE "raised",
                                     !.err = IF Len(used) < gw.n THEN "none" ELSE "rate"]]
                  [] OTHER ->
                       [gw EXCEPT !.prev_ok = NoneInt,
                                  !.call = [@ EXCEPT !.used = used, !.pc = "raised",
                                                     !.err = "other"]]
    /\ UNCHANGED <<turnVars, registry, toolVars, eng, mm, http, snap, sgr>>

\* _OpenRouterClient.chat of graph_pipeline.py and summarizer_v1_0.py: one request
chat ==
    /\ gw.call.client = "v1_0"
    /\ gw.call.pc = "request"
    /\ \E reply \in GatewayReplies :
       \E key \in {get_effective_openai_api_key(gw)} :
          gw' = [gw EXCEPT
                   !.prev_ok = IF reply = "ok" THEN key ELSE NoneInt,
                   !.call = [@ EXCEPT
                      !.used = Append(@, key),
                      !.rate_errors = IF reply = "rate" THEN 1 ELSE 0,
                      !.pc = IF reply = "ok" THEN "returned" ELSE "raised",
                      !.err = IF reply = "ok" THEN "none" ELSE reply]]
    /\ UNCHANGED <<turnVars, registry, toolVars, eng, mm, http, snap, sgr>>

NextKeys == StartCall \/ complete_chat \/ chat

SpecKeys == InitKeys /\ [][NextKeys]_vars

C15_V10RetriesOnRateLimit ==
    (gw.call.client = "v1_0" /\ gw.call.pc = "raised" /\ gw.call.err = "rate") =>
        /\ Len(gw.call.used) = gw.n
        /\ \A i \in 1..Len(gw.call.used) :
              gw.call.used[i] = (gw.call.start + i - 1) % gw.n

MaxAppends == 3
MaxIndex == 2

Convs == {"c1", "c2"}

\* json.dumps(model_dump(mode="json")) of a ConversationState, and its inverse
model_dump(c) ==
    [message_index |-> ToString(c.message_index),
     name |-> IF c.name = NoneStr THEN "null" ELSE c.name,
     age |-> IF c.age = NoneInt THEN "null" ELSE ToString(c.age),
     summary |-> c.summary]

model_validate(raw) ==
    [message_index |-> CHOOSE n \in 0..(MaxIndex + 1) : ToString(n) = raw.message_index,
     name |-> IF raw.name = "null" THEN NoneStr ELSE raw.name,
     age |-> IF raw.age = "null" THEN NoneInt
             ELSE CHOOSE n \in 0..120 : ToString(n) = raw.age,
     summary |-> raw.summary]

\* a HistoryItem as JSON text and back: the timestamp travels as a string
item_dump(item) == [item EXCEPT !.turn = ToString(item.turn)]
item_validate(raw) ==
    [raw EXCEPT !.turn = CHOOSE n \in 0..(MaxAppends + 1) : ToString(n) = raw.turn]

NoState == [present |-> FALSE, v |-> FreshState]

\* an append that replaces the list
InMemory_append_history_replacing(m, c, item) == [m.history EXCEPT ![c] = <<item>>]

\* InMemoryConversationMemory
InMemory_get_state(m, c) == IF m.states[c].present THEN m.states[c].v ELSE FreshState
InMemory_append_history(m, c, item) == [m.history EXCEPT ![c] = Append(@, item)]
InMemory_get_history(m, c) == m.history[c]

\* RedisConversationMemory
Redis_get_state(m, c) ==
    IF m.rstate[c].nil THEN FreshState ELSE model_validate(m.rstate[c].json)
Redis_append_history(m, c, item) == [m.rhistory EXCEPT ![c] = Append(@, item_dump(item))]
Redis_get_history(m, c) ==
    [i \in 1..Len(m.rhistory[c]) |-> item_validate(m.rhistory[c][i])]

ConnectionError == [raised |-> "ConnectionError"]
Returned(v) == [raised |-> "no", value |-> v]

\* the result pair of a call: the Redis one needs the server
Results(m, im, rd) ==
    [im |-> Returned(im), rd |-> IF m.backend = "up" THEN Returned(rd) ELSE ConnectionError]

InitMemory ==
    /\ InitTurns
    /\ registry = DefaultRegistry
    /\ tpc = "off"
    /\ tsub = NoTsub
    /\ mm \in {[url_ok |-> u, backend |-> b, selected |-> "none",
                states |-> [c \in Convs |-> NoState],
                history |-> [c \in Convs |-> <<>>],
                rstate |-> [c \in Convs |-> [nil |-> TRUE, json |-> model_dump(FreshState)]],
                rhistory |-> [c \in Convs |-> <<>>],
                held |-> "none", copy |-> FreshState,
                res |-> Results([backend |-> "up"], "none", "none"),
                log |-> [c \in Convs |-> <<>>], appends |-> 0] :
                  u \in BOOLEAN, b \in {"up", "down"}}
    /\ InitAux({"mm"})

\* main.py 55-60: RedisConversationMemory() only builds the client object
\* (redis.Redis.from_url opens no connection), so it raises for a URL it cannot
\* parse and not for a server that does not answer
SelectMemory ==
    /\ mm.selected = "none"
    /\ mm' = [mm EXCEPT !.selected = IF mm.url_ok THEN "redis" ELSE "inmemory"]
    /\ UNCHANGED <<turnVars, registry, toolVars, eng, gw, http, snap, sgr>>

\* the caller obtains the state of conversation c
MemGetState ==
    /\ mm.selected # "none"
    /\ \E c \in Convs :
          mm' = [mm EXCEPT
                   !.states[c] = [present |-> TRUE, v |-> InMemory_get_state(mm, c)],
                   !.held = c,
                   !.copy = IF mm.backend = "up" THEN Redis_get_state(mm, c) ELSE @,
                   !.res = Results(mm, InMemory_get_state(mm, c), Redis_get_state(mm, c))]
    /\ UNCHANGED <<turnVars, registry, toolVars, eng, gw, http, snap, sgr>>

\* the caller changes the object it holds (conv_state.message_index += 1)
MemMutate ==
    /\ mm.held # "none"
    /\ mm.states[mm.held].v.message_index < MaxIndex
    /\ mm.copy.message_index < MaxIndex
    /\ mm' = [mm EXCEPT
                !.states[mm.held].v = IncrementIndex(@),
                !.copy = IF mm.backend = "up" THEN IncrementIndex(@) ELSE @]
    /\ UNCHANGED <<turnVars, registry, toolVars, eng, gw, http, snap, sgr>>

\* save_state(state) with the object the caller holds
MemSaveState ==
    /\ mm.held # "none"
    /\ mm' = [mm EXCEPT
                !.states[mm.held] = [present |-> TRUE, v |-> @.v],
                !.rstate[mm.held] = IF mm.backend = "up"
                                      THEN [nil |-> FALSE, json |-> model_dump(mm.copy)]
                                      ELSE @,
                !.res = Results(mm, "None", "None")]
    /\ UNCHANGED <<turnVars, registry, toolVars, eng, gw, http, snap, sgr>>

MemAppendHistory ==
    /\ mm.selected # "none"
    /\ mm.appends < MaxAppends
    /\ \E c \in Convs :
       \E item \in {HistoryItem("user", <<"x">>, mm.appends + 1)} :
          mm' = [mm EXCEPT
                   !.history = InMemory_append_history(mm, c, item),
                   !.rhistory = IF mm.backend = "up"
                                  THEN Redis_append_history(mm, c, item) ELSE @,
                   !.log[c] = Append(@, item),
                   !.appends = @ + 1,
                   !.res = Results(mm, "None", "None")]
    /\ UNCHANGED <<turnVars, registry, toolVars, eng, gw, http, snap, sgr>>

MemGetHistory ==
    /\ mm.selected # "none"
    /\ \E c \in Convs :
          mm' = [mm EXCEPT
                   !.res = Results(mm, InMemory_get_history(mm, c), Redis_get_history(mm, c))]
    /\ UNCHANGED <<turnVars, registry, toolVars, eng, gw, http, snap, sgr>>

\* get_summary goes through get_state
MemGetSummary ==
    /\ mm.selected # "none"
    /\ \E c \in Convs :
          mm' = [mm EXCEPT
                   !.states[c] = [present |-> TRUE, v |-> InMemory_get_state(mm, c)],
                   !.res = Results(mm, InMemory_get_state(mm, c).summary,
                                       Redis_get_state(mm, c).summary)]
    /\ UNCHANGED <<turnVars, registry, toolVars, eng, gw, http, snap, sgr>>

NextMemory ==
    \/ SelectMemory
    \/ MemGetState
    \/ MemMutate
    \/ MemSaveState
    \/ MemAppendHistory
    \/ MemGetHistory
    \/ MemGetSummary

SpecMemory == InitMemory /\ [][NextMemory]_vars

\* C17 (SpecMemory): with the Redis server answering, every call returns the
\* same result from InMemoryConversationMemory and from RedisConversationMemory,
\* whatever calls and caller-side mutations came before; a state that was mutated
\* but not saved is not visible to a later get_state in either.
C17_MemoriesEquivalent ==
    mm.backend = "up" => mm.res.im = mm.res.rd

\* C18 (SpecMemory): when the durable backend does not answer at start-up, the
\* process has selected the in-process memory, and the calls made on the selected
\* memory afterwards succeed.
C18_FallbackAtStartup ==
    (mm.backend = "down" /\ mm.selected # "none") =>
        /\ mm.selected = "inmemory"
        /\ (IF mm.selected = "redis" THEN mm.res.rd ELSE mm.res.im).raised = "no"

\* C19 (SpecMemory): the history of a conversation only grows at its end: every
\* step leaves each stored list a prefix of the new one, and at any time either
\* implementation returns exactly the items appended to that conversation, in
\* arrival order, and none of another conversation.
C19_HistoryAppendOnly ==
    /\ [](\A c \in Convs :
            /\ InMemory_get_history(mm, c) = mm.log[c]
            /\ mm.backend = "up" => Redis_get_history(mm, c) = mm.log[c])
    /\ [][\A c \in Convs :
            /\ Len(mm.history[c]) <= Len(mm'.history[c])
            /\ SubSeq(mm'.history[c], 1, Len(mm.history[c])) = mm.history[c]
            /\ Len(mm.rhistory[c]) <= Len(mm'.rhistory[c])
            /\ SubSeq(mm'.rhistory[c], 1, Len(mm.rhistory[c])) = mm.rhistory[c]]_vars

\* C19 witness: appends to both conversations interleaved, each list in order
C19_Witness ==
    /\ mm.backend = "up"
    /\ Len(mm.history["c1"]) = 2
    /\ Len(mm.history["c2"]) = 1
    /\ mm.history["c1"][1].turn = 1
    /\ mm.history["c2"][1].turn = 2
    /\ mm.history["c1"][2].turn = 3
    /\ Redis_get_history(mm, "c1") = mm.history["c1"]

(***************************************************************************)
(* ScenarioRegistry (scenario_registry.py) and the /scenarios endpoints of *)
(* main.py.  The registry is a dict keyed by name: adding a registered     *)
(* name replaces the entry in place.  The class has add, get, all and      *)
(* load_default_from_disk, and no other method.                            *)
(*   http : the last request: method, name, whether the name was           *)
(*          registered when it arrived, the registry at that time, and     *)
(*          the response status and body status                            *)
(***************************************************************************)
\* position of name in the registry, 0 when it is not registered
ScenarioRegistry_index(reg, name) ==
    IF \E i \in 1..Len(reg) : reg[i].name = name
      THEN CHOOSE i \in 1..Len(reg) : reg[i].name = name
      ELSE 0

\* get(name) is not None
ScenarioRegistry_get(reg, name) == ScenarioRegistry_index(reg, name) # 0

ScenarioRegistry_add(reg, scn) ==
    IF ScenarioRegistry_get(reg, scn.name)
      THEN [reg EXCEPT ![ScenarioRegistry_index(reg, scn.name)] = scn]
      ELSE Append(reg, scn)

RegistryCatalog == {ScnA, ScnU, Birthday}
RegistryNames == {scn.name : scn \in RegistryCatalog}

Request(method, name, status, body) ==
    [method |-> method, name |-> name, existed |-> ScenarioRegistry_get(registry, name),
     before |-> registry, status |-> status, body |-> body]

InitRegistry ==
    /\ InitTurns
    /\ registry = DefaultRegistry
    /\ tpc = "off"
    /\ tsub = NoTsub
    /\ http = [method |-> "none", name |-> <<>>, existed |-> FALSE, before |-> <<>>,
               status |-> 0, body |-> "none"]
    /\ InitAux({"http"})

\* POST /scenarios
add_scenario ==
    /\ \E scn \in RegistryCatalog, enabled \in BOOLEAN :
          /\ ScenarioRegistry_get(registry, scn.name) \/ Len(registry) < MaxScenarios
          /\ registry' = ScenarioRegistry_add(registry, [scn EXCEPT !.enabled = enabled])
          /\ http' = Request("POST", scn.name, 200, "ok")
    /\ UNCHANGED <<turnVars, toolVars, eng, gw, mm, snap, sgr>>

\* GET /scenarios
list_scenarios ==
    /\ http' = Request("GET", <<>>, 200, "list")
    /\ UNCHANGED <<turnVars, registry, toolVars, eng, gw, mm, snap, sgr>>

\* DELETE /scenarios/{name}: 404 for an unknown name; otherwise the handler calls
\* scenario_registry.remove(name): the class has no such attribute, the lookup
\* raises AttributeError before the return statement is reached, and the request
\* ends as 500 with the registry untouched
delete_scenario ==
    /\ \E name \in RegistryNames :
          IF ~ScenarioRegistry_get(registry, name)
            THEN http' = Request("DELETE", name, 404, "Scenario not found")
            ELSE http' = Request("DELETE", name, 500, "AttributeError")
    /\ UNCHANGED <<turnVars, registry, toolVars, eng, gw, mm, snap, sgr>>

\* PATCH /scenarios/{name}
patch_scenario ==
    /\ \E name \in RegistryNames, enabled \in BOOLEAN :
          IF ~ScenarioRegistry_get(registry, name)
            THEN /\ http' = Request("PATCH", name, 404, "Scenario not found")
                 /\ UNCHANGED registry
            ELSE /\ registry' = ScenarioRegistry_add(registry,
                        [registry[ScenarioRegistry_index(registry, name)]
                            EXCEPT !.enabled = enabled])
                 /\ http' = Request("PATCH", name, 200, "updated")
    /\ UNCHANGED <<turnVars, toolVars, eng, gw, mm, snap, sgr>>

NextRegistry == add_scenario \/ list_scenarios \/ delete_scenario \/ patch_scenario

SpecRegistry == InitRegistry /\ [][NextRegistry]_vars

\* C20 (SpecRegistry): DELETE /scenarios/{name} on a registered scenario answers
\* 200 with status deleted and afterwards get(name) is none and all() has no
\* entry of that name; on an unknown name it answers 404 and leaves the registry
\* as it was.
C20_RegistryRemove ==
    http.method = "DELETE" =>
        IF http.existed
          THEN /\ http.status = 200
               /\ http.body = "deleted"
               /\ ~ScenarioRegistry_get(registry, http.name)
               /\ \A i \in 1..Len(registry) : registry[i].name # http.name
          ELSE /\ http.status = 404
               /\ registry = http.before

(***************************************************************************)
(* scenario_map_node task by task, with the writers and readers of the     *)
(* registry in between.  Scenario definitions are objects:                 *)
(*   snap.heap    : every ScenarioDefinition object created so far;        *)
(*                  object o is snap.heap[o]                               *)
(*   snap.reg     : ScenarioRegistry._scenarios, the registered objects in *)
(*                  insertion order (a dict keyed by the object's name)    *)
(*   snap.writes  : POST and PATCH requests served so far                  *)
(*   snap.pc      : "idle", "gather" (the tasks of asyncio.gather),        *)
(*                  "reduce", "done", or "raised"                          *)
(*   snap.conv0, snap.conv : the turn's ConversationState at the start of  *)
(*                  scenario_map, and now                                  *)
(*   snap.held    : the list `scenarios` of scenario_map_node              *)
(*   snap.seen    : what these objects held when the list was built        *)
(*   snap.outs    : what the tool returns to task i ({} when it raises an  *)
(*                  Exception)                                             *)
(*   snap.ran     : the tasks that finished: definition, tool output and   *)
(*                  result                                                 *)
(*   snap.failed  : names of the scenarios whose task raised               *)
(*   snap.view    : the dict a reader got from all()                       *)
(***************************************************************************)
MaxWrites == 2

\* a tool the tool registry does not know, referenced by field and as a whole
EngMiss ==
    Scenario(<<"M">>,
      << ToolNode(<<1>>, "lookup"),
         TextNode(<<2>>, <<ToolRef("lookup", "name")>>),
         TextNode(<<3>>, <<ToolRef("lookup", "")>>),
         TextNode(<<4>>, <<Lit("k")>>) >>)

MapCatalog == {EngTool, EngMiss, ScnU}

\* position of a name in the dict, 0 when absent
position(s, name) ==
    IF \E i \in 1..Len(s.reg) : s.heap[s.reg[i]].name = name
      THEN CHOOSE i \in 1..Len(s.reg) : s.heap[s.reg[i]].name = name
      ELSE 0

\* ScenarioRegistry.add: self._scenarios[scenario.name] = scenario
add(s, obj) ==
    IF position(s, s.heap[obj].name) = 0 THEN Append(s.reg, obj)
    ELSE [s.reg EXCEPT ![position(s, s.heap[obj].name)] = obj]

\* ScenarioRegistry.all: dict(self._scenarios), a new dict of the same objects
all(s) == [taken |-> TRUE, alias |-> FALSE, map |-> s.reg]

\* a patch that works on the registered object itself
model_copy_alias(s, obj) == [heap |-> s.heap, obj |-> obj]

\* scenario.model_copy(): a new object with the same field values
model_copy(s, obj) == [heap |-> Append(s.heap, s.heap[obj]), obj |-> Len(s.heap) + 1]

InitMap ==
    /\ InitTurns
    /\ registry = DefaultRegistry
    /\ tpc = "off"
    /\ tsub = NoTsub
    /\ snap \in {[heap |-> h, reg |-> [i \in 1..Len(h) |-> i], writes |-> 0, pc |-> "idle",
                  conv0 |-> c, conv |-> c, held |-> <<>>, seen |-> <<>>, outs |-> <<>>,
                  next |-> 1, ran |-> <<>>, results |-> <<>>, failed |-> {},
                  tools_context |-> EmptyToolsContext,
                  view |-> [taken |-> FALSE, alias |-> FALSE, map |-> <<>>]] :
                   c \in ToolsConvs,
                   h \in UNION {{r \in [1..n -> MapCatalog] :
                                    \A i, j \in 1..n : i # j => r[i].name # r[j].name} :
                                n \in 1..MaxScenarios}}
    /\ InitAux({"snap"})

\* scenario_map_node, up to asyncio.gather: the list of the enabled scenarios
MapSnapshot ==
    /\ snap.pc = "idle"
    /\ \E held \in {SelectSeq(all(snap).map, LAMBDA o : snap.heap[o].enabled)} :
       \E outs \in [1..Len(held) -> ToolResults] :
          snap' = [snap EXCEPT !.held = held,
                               !.seen = [i \in 1..Len(held) |-> snap.heap[held[i]]],
                               !.outs = outs,
                               !.pc = IF held = <<>> THEN "reduce" ELSE "gather"]
    /\ UNCHANGED <<turnVars, registry, toolVars, eng, gw, mm, http, sgr>>

\* one task _run(scn) of the gather.  ToolRegistry.call catches Exception only:
\* when the tool function raises something else (escapes), the task raises and
\* so does the gather, which was called without return_exceptions
MapTask ==
    /\ snap.pc = "gather"
    /\ \E escapes \in BOOLEAN :
       \E scn \in {snap.heap[snap.held[snap.next]]} :
       \E r \in {run_scenario_map(snap.conv, scn, snap.outs[snap.next])} :
          IF escapes /\ r.calls > 0
            THEN snap' = [snap EXCEPT !.pc = "raised", !.failed = {scn.name}]
            ELSE snap' = [snap EXCEPT
                            !.conv = r.conv,
                            !.ran = Append(@, [scn |-> scn, out |-> snap.outs[snap.next],
                                               r |-> r]),
                            !.results = IF r.none THEN @ ELSE Append(@, r),
                            !.next = @ + 1,
                            !.pc = IF snap.next = Len(snap.held) THEN "reduce" ELSE "gather"]
    /\ UNCHANGED <<turnVars, registry, toolVars, eng, gw, mm, http, sgr>>

\* scenario_reduce_node
MapReduce ==
    /\ snap.pc = "reduce"
    /\ snap' = [snap EXCEPT !.pc = "done",
                            !.tools_context =
                                scenario_reduce_node(EmptyToolsContext, snap.results)]
    /\ UNCHANGED <<turnVars, registry, toolVars, eng, gw, mm, http, sgr>>

\* POST /scenarios: the request body becomes a new definition object
SnapAdd ==
    /\ snap.writes < MaxWrites
    /\ \E named \in MapCatalog, coded \in MapCatalog :
       \E heap \in {Append(snap.heap, Scenario(named.name, coded.code))} :
          /\ position(snap, named.name) # 0 \/ Len(snap.reg) < MaxScenarios
          /\ snap' = [snap EXCEPT !.heap = heap,
                                  !.reg = add([snap EXCEPT !.heap = heap], Len(heap)),
                                  !.writes = @ + 1]
    /\ UNCHANGED <<turnVars, registry, toolVars, eng, gw, mm, http, sgr>>

\* PATCH /scenarios/{name} of a registered name
SnapPatch ==
    /\ snap.writes < MaxWrites
    /\ \E i \in 1..Len(snap.reg), enabled \in {"true", "false", "none"} :
       \E c \in {model_copy(snap, snap.reg[i])} :
       \E heap \in {IF enabled = "none" THEN c.heap
                    ELSE [c.heap EXCEPT ![c.obj].enabled = (enabled = "true")]} :
          snap' = [snap EXCEPT !.heap = heap,
                               !.reg = add([snap EXCEPT !.heap = heap], c.obj),
                               !.writes = @ + 1]
    /\ UNCHANGED <<turnVars, registry, toolVars, eng, gw, mm, http, sgr>>

\* a reader calls all()
ReadAll ==
    /\ ~snap.view.taken
    /\ snap' = [snap EXCEPT !.view = all(snap)]
    /\ UNCHANGED <<turnVars, registry, toolVars, eng, gw, mm, http, sgr>>

\* the reader deletes the first entry of the dict it got
MutateView ==
    /\ snap.view.taken
    /\ snap.view.map # <<>>
    /\ snap' = [snap EXCEPT !.view.map = Tail(@),
                            !.reg = IF snap.view.alias THEN Tail(@) ELSE @]
    /\ UNCHANGED <<turnVars, registry, toolVars, eng, gw, mm, http, sgr>>

NextMap ==
    MapSnapshot \/ MapTask \/ MapReduce \/ SnapAdd \/ SnapPatch \/ ReadAll \/ MutateView

SpecMap == InitMap /\ [][NextMap]_vars

\* C21 (SpecMap): the objects a scenario_map holds are never changed by POST or
\* PATCH; the map runs exactly the scenarios that were enabled when its list was
\* built, as they were then, whatever is added or patched meanwhile; and the
\* registry changes only through POST and PATCH, never through a reader's dict.
C21_ConsistentSnapshots ==
    /\ [](/\ \A i \in 1..Len(snap.held) : snap.heap[snap.held[i]] = snap.seen[i]
          /\ snap.pc \in {"reduce", "done"} =>
                /\ [i \in 1..Len(snap.ran) |-> snap.ran[i].scn] = snap.seen
                /\ snap.results =
                      MapFrom(1, snap.seen, snap.conv0, snap.outs).results)
    /\ [][snap'.reg # snap.reg => snap'.writes = snap.writes + 1]_vars

\* C21 witness: a scenario of the list was disabled by PATCH while the map ran, the
\* map still produced its result, and a reader has deleted an entry of its dict
C21_Witness ==
    /\ snap.pc = "done"
    /\ snap.results # <<>>
    /\ \E i \in 1..Len(snap.held) :
          /\ position(snap, snap.seen[i].name) # 0
          /\ snap.reg[position(snap, snap.seen[i].name)] # snap.held[i]
          /\ ~snap.heap[snap.reg[position(snap, snap.seen[i].name)]].enabled
          /\ \E k \in 1..Len(snap.results) :
                snap.results[k].scenario_name = snap.seen[i].name
    /\ snap.view.taken
    /\ Len(snap.view.map) < Len(snap.reg)

C23_FailedScenarioIsolated ==
    snap.failed # {} =>
        /\ snap.pc # "raised"
        /\ snap.pc = "done" =>
              /\ snap.tools_context = scenario_reduce_node(EmptyToolsContext, snap.results)
              /\ \A k \in 1..Len(snap.results) :
                    snap.results[k].scenario_name \notin snap.failed

(***************************************************************************)
(* Claims on the turn graph and its summarizer (Spec).                     *)
(***************************************************************************)
\* C24 (Spec): launch_summary schedules the summarizer and the response is
\* returned in the same step, the summarizer not yet run; no step of a summarizer
\* changes a request, the history or message_index; a run that ends at the LLM
\* call (the call raised) leaves the stored state as it was, and save_summary
\* either writes the run's summary or, when the memory raises, nothing.
C24_FireAndForget ==
    [][/\ \A t \in Slots :
            (pc[t] = "launch_summary" /\ pc'[t] = "done") =>
                /\ turn'[t].response.returned
                /\ summ'[turn[t].id].pc = "load_history"
       /\ \A k \in DOMAIN summ :
            (summ[k].pc # "none" /\ summ'[k] # summ[k]) =>
                /\ turn' = turn
                /\ pc' = pc
                /\ outcome' = outcome
                /\ mem_history' = mem_history
                /\ mem_state'.v.message_index = mem_state.v.message_index
                /\ \/ mem_state' = mem_state
                   \/ /\ summ[k].pc = "save_summary"
                      /\ mem_state'.v = [mem_state.v EXCEPT !.summary = summ[k].summary]
                /\ (summ[k].pc = "llm_summary" /\ summ'[k].pc = "end") =>
                      mem_state' = mem_state]_vars

\* C24 witness: the second response is out, a summary of the first turn is stored,
\* and the summarizer of the second turn has not reached its LLM call yet
C24_Witness ==
    /\ outcome.returned = 2
    /\ mem_state.v.message_index = 2
    /\ mem_state.v.summary # <<>>
    /\ summ[1].pc = "end"
    /\ summ[2].pc = "llm_summary"

\* the working answer while the turn is between llm_generate and persist_answer:
\* the stripped output of the last judge_revise, or the stripped draft
WorkingAnswer(t) ==
    IF turn[t].revise_calls > 0 THEN turn[t].answer ELSE turn[t].answer_draft

\* C30 (Spec): the text judge_evaluate examines, the content of the assistant item
\* persist_answer appends and the answer of the response all equal the stripped
\* output of the turn's last judge_revise, whatever that output is, the empty
\* string included; without a revision they equal the stripped draft.
C30_ReviseReplacesAnswer ==
    /\ [](\A t \in Slots :
            pc[t] \in {"judge_revise", "persist_answer"} =>
                turn[t].examined = WorkingAnswer(t))
    /\ [][\A t \in Slots :
            (pc[t] = "persist_answer" /\ pc'[t] = "launch_summary") =>
                /\ mem_history'[Len(mem_history')].role = "assistant"
                /\ mem_history'[Len(mem_history')].content = WorkingAnswer(t)
                /\ turn'[t].answer = WorkingAnswer(t)]_vars
    /\ [][\A t \in Slots :
            (pc[t] = "launch_summary" /\ pc'[t] = "done") =>
                turn'[t].response.answer = turn[t].answer]_vars

(***************************************************************************)
(* SGR conversion: POST /sgr/convert (main.py), sgr_convert_text           *)
(* (sgr/converter.py) and sgr_convert_via_langchain                        *)
(* (sgr/langchain_chain/pipeline.py).                                      *)
(*                                                                         *)
(* A text is the sequence of its lines (str.splitlines), a line the        *)
(* sequence of its template pieces, a blank line <<>>.  An intent carries  *)
(* `check`: whether _looks_like_condition_check_intent matches its text.   *)
(*                                                                         *)
(*   sgr.keys        : number of configured API keys                       *)
(*   sgr.has_if      : the input text contains the conditional marker      *)
(*   sgr.strict, sgr.return_diagnostics : the request's flags             *)
(*   sgr.pc          : "idle", the step whose LLM call is awaited, "done"  *)
(*   sgr.attempt     : index of the awaited attempt of that step           *)
(*   sgr.files       : the files of the trace directory                    *)
(*   sgr.invoked     : the steps whose LLM was invoked                     *)
(*   sgr.marked      : calls of mark_openai_api_key_rate_limited           *)
(*   sgr.counter     : the rotation counter in Redis                       *)
(*   sgr.llm_key     : the key of the client built when the pipeline       *)
(*                     starts (keys are numbered from 0)                   *)
(*   sgr.used        : for every attempt of the current step, the key it   *)
(*                     was made with and the key the counter selected then *)
(*   sgr.last_raw    : content of the last message the LLM returned        *)
(*   sgr.last_llm_raw: the variable of that name in the pipeline           *)
(*   sgr.step2, sgr.step3 : the validated outputs of steps 2 and 3         *)
(*   sgr.scenario    : the assembled scenario, <<>> before assembly        *)
(*   sgr.failed      : where the conversion failed, sgr.exc what was       *)
(*                     raised there                                        *)
(*   sgr.response    : the HTTP response                                   *)
(***************************************************************************)
SgrKeys == 2

\* list_tool_specs(): name and output_schema.properties of each tool
ToolSpecs == {[name |-> "get_user_data", properties |-> {"name", "age"}]}
tool_names == <<"get_user_data">>

Steps == <<"01_extract_intents", "02_gate_and_critique", "03_tools_and_templates">>
UpstreamErrors == {"RateLimitError", "AuthenticationError", "APITimeoutError", "APIConnectionError", "APIStatusError"}
\* what one attempt of a step may end in: a reply that validates, a reply that
\* does not parse or validate, an error of the client, or asyncio.wait_for timing out
LlmOutcomes == {"ok", "garbage", "status429", "TimeoutError"} \cup UpstreamErrors

Intent(id, text, check) == [id |-> id, text |-> text, check |-> check]
ConditionGate(id, condition_text, then_intents, else_intents) ==
    [id |-> id, condition_text |-> condition_text, then_intents |-> then_intents,
     else_intents |-> else_intents]
Step2GateAndCritique(intents, unconditional_intents, conditions) ==
    [intents |-> intents, unconditional_intents |-> unconditional_intents,
     conditions |-> conditions]
TemplatePlan(target, condition_id, text, depends_on_tool) ==
    [target |-> target, condition_id |-> condition_id, text |-> text,
     depends_on_tool |-> depends_on_tool]
Step3ToolsAndTemplates(tools_to_call, templates) ==
    [tools_to_call |-> tools_to_call, templates |-> templates]

NoStep2 == Step2GateAndCritique(<<>>, <<>>, <<>>)
NoStep3 == Step3ToolsAndTemplates(<<>>, <<>>)

\* canned outputs of step 2
Step2Outputs ==
    { NoStep2,
      Step2GateAndCritique(<<Intent("i1", << <<Lit("k")>> >>, FALSE)>>, <<"i1">>, <<>>),
      Step2GateAndCritique(<<Intent("i1", << <<ToolRef("get_user_data", "name")>>, <<>>, <<Lit("k")>> >>, FALSE)>>,
                           <<"i1">>, <<>>),
      Step2GateAndCritique(<<Intent("i1", << <<ToolRef("ghost", "x")>> >>, FALSE)>>, <<"i1">>, <<>>),
      Step2GateAndCritique(<<Intent("i1", << <<Lit("k")>> >>, TRUE), Intent("i2", << <<Lit("u")>> >>, FALSE)>>,
                           <<"i1">>,
                           <<ConditionGate("c1", "c", <<"i2">>, <<>>)>>),
      Step2GateAndCritique(<<Intent("i1", << <<Lit("k")>> >>, FALSE), Intent("i2", << <<Lit("u")>>, <<Lit("a")>> >>, FALSE)>>,
                           <<"i1">>,
                           <<ConditionGate("c1", "c", <<"i2">>, <<"i1">>)>>),
      Step2GateAndCritique(<<Intent("i1", << <<Lit("k")>> >>, FALSE)>>, <<>>,
                           <<ConditionGate("c1", "c", <<>>, <<"i1">>)>>),
      Step2GateAndCritique(<<Intent("i1", << <<Lit("k")>> >>, FALSE)>>, <<>>,
                           <<ConditionGate("c1", "", <<"i1">>, <<>>)>>),
      Step2GateAndCritique(<<Intent("i1", << <<Lit("k")>>, <<Lit("m")>> >>, FALSE), Intent("i2", << <<Lit("u")>>, <<Lit("a")>> >>, FALSE)>>,
                           <<"i1">>,
                           <<ConditionGate("c1", "c", <<"i2">>, <<"i1">>), ConditionGate("c2", "d", <<"i1">>, <<"i2">>)>>) }

\* canned outputs of step 3
Step3Outputs ==
    { NoStep3,
      Step3ToolsAndTemplates(<<"get_user_data">>, <<>>),
      Step3ToolsAndTemplates(<<"get_user_data", "get_user_data">>,
                             <<TemplatePlan("global", "", << <<Lit("g")>>, <<Lit("h")>> >>, "")>>),
      Step3ToolsAndTemplates(<<>>, <<TemplatePlan("global", "", << <<ToolRef("get_user_data", "age")>> >>, "")>>),
      Step3ToolsAndTemplates(<<>>, <<TemplatePlan("global", "", << <<ToolRef("get_user_data", "zip")>> >>, "get_user_data")>>),
      Step3ToolsAndTemplates(<<"ghost">>, <<TemplatePlan("global", "", << <<ToolRef("ghost", "")>> >>, "ghost")>>),
      Step3ToolsAndTemplates(<<>>, <<TemplatePlan("condition_then", "c1", << <<ToolRef("get_user_data", "name")>> >>, "")>>),
      Step3ToolsAndTemplates(<<>>, <<TemplatePlan("condition_else", "c1", << <<DialogRef("name")>> >>, ""),
                                     TemplatePlan("global", "", << <<>> >>, "")>>) }

RECURSIVE Concat(_)
Concat(seqs) == IF seqs = <<>> THEN <<>> ELSE Head(seqs) \o Concat(Tail(seqs))

\* the non-blank lines of a text, and `(text or "").strip()` being non-empty
Lines(text) == SelectSeq(text, LAMBDA line : line # <<>>)
NonBlank(text) == Lines(text) # <<>>

\* pipeline._extract_tool_refs: the tool names of the {=@tool...=} pieces, in order
_extract_tool_refs(text) ==
    [i \in 1..Len(SelectSeq(Concat(text), LAMBDA p : p.k = "tool" /\ p.a # "")) |->
        SelectSeq(Concat(text), LAMBDA p : p.k = "tool" /\ p.a # "")[i].a]

\* add_tool over a list of names: every name once, in order of first appearance
RECURSIVE add_tool(_, _)
add_tool(needed_tools, names) ==
    IF names = <<>> THEN needed_tools
    ELSE add_tool(IF Head(names) = "" \/ \E i \in 1..Len(needed_tools) : needed_tools[i] = Head(names)
                    THEN needed_tools ELSE Append(needed_tools, Head(names)),
                  Tail(names))

InToolNames(t) == \E i \in 1..Len(tool_names) : tool_names[i] = t

\* the hard policy on step 3 (pipeline.py:676-707): unknown tools dropped from
\* tools_to_call and depends_on_tool, blank templates dropped, and every tool
\* referenced by a template or an intent added to tools_to_call when it is known
tool_policy(step2, step3) ==
    LET kept == SelectSeq(step3.tools_to_call, InToolNames)
        deps == [i \in 1..Len(step3.templates) |->
                    IF InToolNames(step3.templates[i].depends_on_tool)
                      THEN step3.templates[i]
                      ELSE [step3.templates[i] EXCEPT !.depends_on_tool = ""]]
        templates == SelectSeq(deps, LAMBDA t : NonBlank(t.text))
        from_templates ==
            Concat([i \in 1..Len(templates) |->
                       <<templates[i].depends_on_tool>> \o _extract_tool_refs(templates[i].text)])
        from_intents ==
            Concat([i \in 1..Len(step2.intents) |-> _extract_tool_refs(step2.intents[i].text)])
        needed_tools == add_tool(<<>>, kept \o from_templates \o from_intents)
    IN  [tools_to_call |-> SelectSeq(needed_tools, InToolNames), templates |-> templates]

\* step 2's post-processing (pipeline.py:598-605): with conditions present, the
\* unconditional intents that are unknown or look like a condition check are dropped
gate_unconditional(step2) ==
    IF step2.conditions = <<>> THEN step2
    ELSE [step2 EXCEPT !.unconditional_intents =
            SelectSeq(step2.unconditional_intents,
                      LAMBDA iid : \E i \in 1..Len(step2.intents) :
                                      step2.intents[i].id = iid /\ ~step2.intents[i].check)]

\* intent_by_id.get(iid): the texts of the intents with that id that are not blank
IntentTexts(step2, iids) ==
    Concat([k \in 1..Len(iids) |->
              Concat([i \in 1..Len(step2.intents) |->
                        IF step2.intents[i].id = iids[k] /\ NonBlank(step2.intents[i].text)
                          THEN <<step2.intents[i].text>> ELSE <<>>])])

\* append_text_nodes over texts: one root text node per non-blank line, ids from next_id
TextNodesFrom(next_id, texts) ==
    [i \in 1..Len(Lines(Concat(texts))) |-> TextNode(<<next_id + i - 1>>, Lines(Concat(texts))[i])]

\* text nodes numbered within the parent, whatever the branch
_atomic_text_nodes_flat(parent_id, branch_index, texts) ==
    [i \in 1..Len(Lines(Concat(texts))) |-> TextNode(<<parent_id, i>>, Lines(Concat(texts))[i])]

\* pipeline._atomic_text_nodes
_atomic_text_nodes(parent_id, branch_index, texts) ==
    LET cleaned == Lines(Concat(texts))
    IN  IF Len(cleaned) = 1 THEN <<TextNode(<<parent_id, branch_index>>, cleaned[1])>>
        ELSE [i \in 1..Len(cleaned) |-> TextNode(<<parent_id, branch_index, i>>, cleaned[i])]

TemplateTexts(step3, target, condition_id) ==
    Concat([i \in 1..Len(step3.templates) |->
              IF /\ step3.templates[i].target = target
                 /\ target = "global" \/ step3.templates[i].condition_id = condition_id
                 /\ NonBlank(step3.templates[i].text)
                THEN <<step3.templates[i].text>> ELSE <<>>])

\* the loop over step2.conditions: acc is [code, next_id, raised]
RECURSIVE AssembleConditions(_, _, _, _, _)
AssembleConditions(conds, acc, strict, step2, step3) ==
    IF conds = <<>> \/ acc.raised THEN acc
    ELSE LET cond == Head(conds)
             then_texts == IntentTexts(step2, cond.then_intents)
                             \o TemplateTexts(step3, "condition_then", cond.id)
             else_texts == IntentTexts(step2, cond.else_intents)
                             \o TemplateTexts(step3, "condition_else", cond.id)
             children == _atomic_text_nodes(acc.next_id, 1, then_texts)
             node == IfNode(<<acc.next_id>>, FreeCond, children,
                            _atomic_text_nodes(acc.next_id, 2, else_texts))
         IN  IF cond.condition_text = "" \/ (children = <<>> /\ strict)
               THEN [acc EXCEPT !.raised = TRUE]
               ELSE AssembleConditions(Tail(conds),
                       [code |-> Append(acc.code, node), next_id |-> acc.next_id + 1, raised |-> FALSE],
                       strict, step2, step3)

\* pipeline._assemble_scenario: tool nodes, unconditional texts, global templates,
\* one if-node per condition, an end node; [raised |-> TRUE] when it raises ValueError.
\* An else branch that is absent and one that is [] (explicit_else_noop) are both <<>>.
_assemble_scenario(strict, step2, step3) ==
    LET tools_to_call == add_tool(<<>>, step3.tools_to_call)
        tool_nodes == [i \in 1..Len(tools_to_call) |-> ToolNode(<<i>>, tools_to_call[i])]
        texts == TextNodesFrom(Len(tool_nodes) + 1,
                               IntentTexts(step2, step2.unconditional_intents)
                                 \o TemplateTexts(step3, "global", ""))
        acc == AssembleConditions(step2.conditions,
                                  [code |-> tool_nodes \o texts,
                                   next_id |-> Len(tool_nodes) + Len(texts) + 1, raised |-> FALSE],
                                  strict, step2, step3)
    IN  IF acc.raised THEN [raised |-> TRUE, scenario |-> <<>>]
        ELSE [raised |-> FALSE,
              scenario |-> Scenario(<<"s">>, Append(acc.code, EndNode(<<acc.next_id>>)))]

\* every node of a code list with the nodes of its branches
RECURSIVE AllNodes(_)
AllNodes(nodes) ==
    IF nodes = <<>> THEN {}
    ELSE {Head(nodes)} \cup AllNodes(Head(nodes).children)
           \cup AllNodes(Head(nodes).else_children) \cup AllNodes(Tail(nodes))

\* converter._has_actionable_nodes and converter._contains_if
_has_actionable_nodes(nodes) == \E i \in 1..Len(nodes) : nodes[i].type \in {"text", "tool", "if"}
_contains_if(nodes) == \E n \in AllNodes(nodes) : n.type = "if"

\* converter._validate_scenario_or_raise: TRUE when it raises ValueError
_validate_scenario_or_raise(scenario, has_if) ==
    \/ ~_has_actionable_nodes(scenario.code)
    \/ has_if /\ ~_contains_if(scenario.code)

\* the {=@tool.field=} pieces of the text nodes visit_nodes reaches
TemplateRefs(scenario) ==
    {p \in UNION {{n.text[i] : i \in 1..Len(n.text)} : n \in {m \in AllNodes(scenario.code) : m.type = "text"}} :
        p.k = "tool" /\ p.a # ""}

\* converter._validate_templates: the template_refs diagnostics; it never raises
_validate_templates(scenario) ==
    [referenced_tools |-> {p.a : p \in TemplateRefs(scenario)},
     unknown_tools |-> {p.a : p \in {q \in TemplateRefs(scenario) : ~InToolNames(q.a)}},
     unknown_fields |-> {<<p.a, p.f>> : p \in {q \in TemplateRefs(scenario) :
                            /\ InToolNames(q.a)
                            /\ q.f # ""
                            /\ \E s \in ToolSpecs : s.name = q.a /\ q.f \notin s.properties}}]

\* {step}.request.json and {step}.response.json
RequestFiles == <<"01_extract_intents.request.json", "02_gate_and_critique.request.json", "03_tools_and_templates.request.json">>
ResponseFiles == <<"01_extract_intents.response.json", "02_gate_and_critique.response.json", "03_tools_and_templates.response.json">>

\* the text of the message an attempt of step k returned
Raw(k, o) == IF o = "ok" THEN <<"raw", k>> ELSE <<"bad", k>>
\* the attempts that return a message
Replies == {"ok", "garbage"}
\* _call_llm_step's loop: a rate-limited attempt is retried while keys remain
RateLimited(o) == o \in {"RateLimitError", "status429"}
Retries(s, o) == RateLimited(o) /\ s.attempt + 1 < s.keys
\* the exception an attempt that does not return raises
Raised(o) ==
    IF o = "status429" THEN "APIStatusError"
    ELSE IF o = "garbage" THEN "ValidationError"
    ELSE o

\* the except clauses of the endpoint, in their order (main.py:157-169)
status_of(exc) ==
    IF exc = "SgrConvertError" THEN 422
    ELSE IF exc = "RateLimitError" THEN 429
    ELSE IF exc = "AuthenticationError" THEN 401
    ELSE IF exc \in {"APITimeoutError", "APIConnectionError"} THEN 504
    ELSE IF exc = "APIStatusError" THEN 502
    ELSE 500

NoBody == [trace_id |-> "", failed_step |-> "", error |-> "", last_llm_raw |-> <<>>]
NoSgrResponse == [status |-> 0, body |-> NoBody, scenario |-> <<>>, template_refs |-> <<>>]

\* SgrConvertError.to_422 as the endpoint returns it
to_422(failed_step, exc, last_llm_raw) ==
    [status |-> status_of("SgrConvertError"),
     body |-> [trace_id |-> "trace", failed_step |-> failed_step, error |-> exc,
               last_llm_raw |-> last_llm_raw],
     scenario |-> <<>>, template_refs |-> <<>>]

\* pipeline._build_llm: the key of a new client is the one the counter selects
_build_llm(s) == get_effective_openai_api_key([redis |-> "up", counter |-> s.counter, n |-> s.keys])

\* the key of llm_attempt: the client passed in for attempt 0, a new one after that
llm_attempt(s) == IF s.attempt = 0 THEN s.llm_key ELSE _build_llm(s)

\* the attempt of step k that is awaited ends in o: retried, or the state after
\* _call_llm_step returned or raised (pc is left for the caller to set)
_call_llm_step(s, k, o) ==
    [s EXCEPT !.marked = IF RateLimited(o) THEN @ + 1 ELSE @,
              !.counter = IF RateLimited(o) /\ s.keys > 1 THEN @ + 1 ELSE @,
              !.used = Append(@, [key |-> llm_attempt(s), selected |-> _build_llm(s)]),
              !.attempt = IF Retries(s, o) THEN @ + 1 ELSE 0,
              !.last_raw = IF o \in Replies THEN Raw(k, o) ELSE @,
              !.files = IF o = "ok" THEN @ \cup {ResponseFiles[k]} ELSE @,
              !.last_llm_raw = IF o = "ok" THEN Raw(k, o) ELSE @]

\* the except block of a step of the pipeline: 98_error.json, then SgrConvertError,
\* which the converter lets through and the endpoint answers with 422
StepFails(s, failed_step, exc) ==
    [s EXCEPT !.files = @ \cup {"98_error.json"},
              !.failed = failed_step,
              !.exc = exc,
              !.pc = "done",
              !.response = to_422(failed_step, exc, s.last_llm_raw)]

\* the request file of step k is written and its LLM call awaited
StepStarts(s, k) ==
    [s EXCEPT !.files = @ \cup {RequestFiles[k]},
              !.invoked = @ \cup {Steps[k]},
              !.attempt = 0,
              !.used = <<>>,
              !.pc = Steps[k]]

\* sgr_convert_text after the pipeline returned (converter.py:129-142) and the
\* endpoint's answer
static_validation(s) ==
    IF _validate_scenario_or_raise(s.scenario, s.has_if)
      THEN [s EXCEPT !.failed = "10_static_validation",
                     !.exc = "ValueError",
                     !.pc = "done",
                     !.response = to_422("10_static_validation", "ValueError", <<>>)]
      ELSE [s EXCEPT !.pc = "done",
                     !.response = [status |-> 200, body |-> NoBody, scenario |-> s.scenario,
                                   template_refs |-> IF s.return_diagnostics
                                                       THEN _validate_templates(s.scenario)
                                                       ELSE <<>>]]

\* the pipeline after step 3 returned (pipeline.py:676-775): the tool policy, the
\* assembly, 99_convert_result.json and trace_bundle.json
assemble_and_finish(s) ==
    LET step3 == tool_policy(s.step2, s.step3)
        built == _assemble_scenario(s.strict, s.step2, step3)
    IN  IF built.raised
          THEN StepFails([s EXCEPT !.step3 = step3], "04_assemble_scenario", "ValueError")
          ELSE static_validation(
                 [s EXCEPT !.step3 = step3,
                           !.scenario = built.scenario,
                           !.files = @ \cup {"99_convert_result.json", "trace_bundle.json"}])

InitSgr ==
    /\ InitTurns
    /\ registry = DefaultRegistry
    /\ tpc = "off"
    /\ tsub = NoTsub
    /\ sgr \in {[keys |-> n, has_if |-> h, strict |-> st, return_diagnostics |-> rd,
                 pc |-> "idle", attempt |-> 0, files |-> {}, invoked |-> {}, marked |-> 0,
                 counter |-> c, llm_key |-> 0, used |-> <<>>,
                 last_raw |-> <<>>, last_llm_raw |-> <<>>,
                 step2 |-> NoStep2, step3 |-> NoStep3, scenario |-> <<>>,
                 failed |-> "none", exc |-> "none", response |-> NoSgrResponse] :
                  n \in 1..SgrKeys, c \in 0..(SgrKeys - 1),
                  h \in BOOLEAN, st \in BOOLEAN, rd \in BOOLEAN}
    /\ InitAux({"sgr"})

\* POST /sgr/convert up to the first LLM call: 00_convert_request.json, the client
\* `llm` built with the key selected then (pipeline.py:463), the request file of
\* step 1
sgr_convert ==
    /\ sgr.pc = "idle"
    /\ sgr' = StepStarts([sgr EXCEPT !.files = @ \cup {"00_convert_request.json"},
                                     !.llm_key = _build_llm(sgr)], 1)
    /\ UNCHANGED <<turnVars, registry, toolVars, eng, gw, mm, http, snap>>

\* step 1: an attempt of its LLM call ends
extract_intents ==
    /\ sgr.pc = Steps[1]
    /\ \E o \in LlmOutcomes :
         \E s \in {_call_llm_step(sgr, 1, o)} :
            sgr' = IF Retries(sgr, o) THEN s
                   ELSE IF o = "ok" THEN StepStarts(s, 2)
                   ELSE StepFails(s, Steps[1], Raised(o))
    /\ UNCHANGED <<turnVars, registry, toolVars, eng, gw, mm, http, snap>>

\* step 2: an attempt of its LLM call ends
gate_and_critique ==
    /\ sgr.pc = Steps[2]
    /\ \E o \in LlmOutcomes, step2 \in Step2Outputs :
         \E s \in {_call_llm_step(sgr, 2, o)} :
            sgr' = IF Retries(sgr, o) THEN s
                   ELSE IF o = "ok" THEN StepStarts([s EXCEPT !.step2 = gate_unconditional(step2)], 3)
                   ELSE StepFails(s, Steps[2], Raised(o))
    /\ UNCHANGED <<turnVars, registry, toolVars, eng, gw, mm, http, snap>>

\* step 3: an attempt of its LLM call ends; when it returns, the rest of the
\* conversion runs without another LLM call
tools_and_templates ==
    /\ sgr.pc = Steps[3]
    /\ \E o \in LlmOutcomes, step3 \in Step3Outputs :
         \E s \in {_call_llm_step(sgr, 3, o)} :
            sgr' = IF Retries(sgr, o) THEN s
                   ELSE IF o = "ok" THEN assemble_and_finish([s EXCEPT !.step3 = step3])
                   ELSE StepFails(s, Steps[3], Raised(o))
    /\ UNCHANGED <<turnVars, registry, toolVars, eng, gw, mm, http, snap>>

NextSgr == sgr_convert \/ extract_intents \/ gate_and_critique \/ tools_and_templates

SpecSgr == InitSgr /\ [][NextSgr]_vars

(***************************************************************************)
(* Claims on the SGR conversion (SpecSgr).                                 *)
(***************************************************************************)
\* position of a step of the conversion: the three LLM steps, the assembly, the
\* static validation
StepIndex(step) ==
    IF \E k \in 1..Len(Steps) : Steps[k] = step
      THEN CHOOSE k \in 1..Len(Steps) : Steps[k] = step
    ELSE IF step = "04_assemble_scenario" THEN 4
    ELSE 5

\* C25 (SpecSgr): a conversion that failed at a step answers with the structured
\* error: status 422, failed_step that step, the trace id, the error in the
\* diagnostics, and as last_llm_raw the text of the last message the LLM returned;
\* no LLM step after the failed one was invoked and no scenario is returned.
C25_StructuredFailure ==
    (sgr.pc = "done" /\ sgr.failed # "none") =>
        /\ sgr.response.status = 422
        /\ sgr.response.body.failed_step = sgr.failed
        /\ sgr.response.body.trace_id = "trace"
        /\ sgr.response.body.error = sgr.exc
        /\ sgr.response.body.last_llm_raw = sgr.last_raw
        /\ sgr.response.scenario = <<>>
        /\ \A k \in 1..Len(Steps) : Steps[k] \in sgr.invoked => k <= StepIndex(sgr.failed)

\* C26 (SpecSgr): 00_convert_request.json and a step's request file are in the trace
\* directory whenever that step's LLM has been invoked; a finished conversion
\* leaves 99_convert_result.json and trace_bundle.json without 98_error.json when
\* it succeeded, and 98_error.json without 99_convert_result.json when it failed.
C26_TraceDirectory ==
    /\ \A k \in 1..Len(Steps) :
          Steps[k] \in sgr.invoked =>
              {"00_convert_request.json", RequestFiles[k]} \subseteq sgr.files
    /\ sgr.pc = "done" =>
          IF sgr.response.status = 200
            THEN /\ {"99_convert_result.json", "trace_bundle.json"} \subseteq sgr.files
                 /\ "98_error.json" \notin sgr.files
            ELSE /\ "98_error.json" \in sgr.files
                 /\ "99_convert_result.json" \notin sgr.files

\* the HTTP status the interface gives to an upstream LLM error
UpstreamStatus(exc) ==
    IF exc = "RateLimitError" THEN 429
    ELSE IF exc = "AuthenticationError" THEN 401
    ELSE IF exc = "APIStatusError" THEN 502
    ELSE 504

\* C27 (SpecSgr): a conversion that ended on an upstream LLM error answers with the
\* status of that error's kind (429, 401, 504, 502), and a 422 answer comes from a
\* parse, validation or assembly error only.
C27_UpstreamStatus ==
    sgr.pc = "done" =>
        /\ sgr.exc \in UpstreamErrors => sgr.response.status = UpstreamStatus(sgr.exc)
        /\ sgr.response.status = 422 => sgr.exc \in {"ValidationError", "ValueError"}

\* C28 (SpecSgr): the scenario of a successful conversion passes static validation,
\* every {=@tool...=} reference of its text nodes names an available tool, and a
\* root tool node for that tool sorts before the referencing node.
C28_ReferencesCovered ==
    (sgr.pc = "done" /\ sgr.response.status = 200) =>
        /\ ~_validate_scenario_or_raise(sgr.response.scenario, sgr.has_if)
        /\ \A n \in AllNodes(sgr.response.scenario.code) :
              \A i \in 1..Len(n.text) :
                 (n.type = "text" /\ n.text[i].k = "tool") =>
                     /\ InToolNames(n.text[i].a)
                     /\ \E j \in 1..Len(sgr.response.scenario.code) :
                           /\ sgr.response.scenario.code[j].type = "tool"
                           /\ sgr.response.scenario.code[j].tool = n.text[i].a
                           /\ KeyLess(_sort_key(sgr.response.scenario.code[j]), _sort_key(n))

\* C29 (SpecSgr): a conversion whose assembled scenario references an unknown tool,
\* or a field the tool's output schema does not declare, ends with status 422 and
\* failed_step 10_static_validation, with and without return_diagnostics.
C29_UnknownReferenceFails ==
    (/\ sgr.pc = "done"
     /\ sgr.scenario # <<>>
     /\ \/ _validate_templates(sgr.scenario).unknown_tools # {}
        \/ _validate_templates(sgr.scenario).unknown_fields # {}) =>
        /\ sgr.response.status = 422
        /\ sgr.response.body.failed_step = "10_static_validation"
        /\ sgr.response.scenario = <<>>

(***************************************************************************)
(* One scenario run, node by node (SpecNodes): run_scenario_map on one     *)
(* scenario, then conditions_decide on its result.                         *)
(*                                                                         *)
(* A condition string is the sequence of its tokens: a run of word         *)
(* characters ("w", a number as "num"), one whitespace character ("sp"),   *)
(* a comparison operator ("op"), or another character ("p").               *)
(*                                                                         *)
(*   eng.text     : the condition string of the scenario's `if` node       *)
(*   eng.conv     : the ConversationState of the turn                      *)
(*   eng.scenario : the scenario that runs                                 *)
(*   eng.tool_out : what the tool function returns when it is called       *)
(*   eng.run      : the result of run_scenario_map                         *)
(*   eng.cjs      : the decider's replies                                  *)
(*   eng.decided  : the result of conditions_decide                        *)
(***************************************************************************)
MaxK == 3

Tok(t, s, n) == [t |-> t, s |-> s, n |-> n]
W(s) == Tok("w", s, 0)
Num(n) == Tok("num", "", n)
Sp == Tok("sp", " ", 0)
Op(s) == Tok("op", s, 0)
P(s) == Tok("p", s, 0)

Ops == {"==", "!=", "<", "<=", ">", ">="}

\* str.lower() and the (?i) flag
Lower(s) == IF s = "MESSAGE_INDEX" THEN "message_index" ELSE s

\* a word character on that side of position i (for \b)
WordAt(text, i) == i >= 1 /\ i <= Len(text) /\ text[i].t \in {"w", "num"}

\* \s* from position i: the first position that is not whitespace
RECURSIVE SkipSp(_, _)
SkipSp(text, i) == IF i <= Len(text) /\ text[i].t = "sp" THEN SkipSp(text, i + 1) ELSE i

\* the regular expression \b(?:dialog\.)?message_index\s*(op)\s*(\d+)\b matches
\* with message_index at position i
MatchesAt(text, i) ==
    /\ text[i].t = "w" /\ Lower(text[i].s) = "message_index"
    /\ ~WordAt(text, i - 1)
    /\ ~WordAt(text, i + 1)
    /\ SkipSp(text, i + 1) <= Len(text)
    /\ text[SkipSp(text, i + 1)].t = "op"
    /\ SkipSp(text, SkipSp(text, i + 1) + 1) <= Len(text)
    /\ text[SkipSp(text, SkipSp(text, i + 1) + 1)].t = "num"
    /\ ~WordAt(text, SkipSp(text, SkipSp(text, i + 1) + 1) + 1)

\* `sub in lowered` for the stems the function looks for; the Russian stems of
\* "not", "first" and "message" are written "ne", "perv" and "soobshch"
Contains(text, stem) == \E i \in 1..Len(text) : text[i].t = "w" /\ text[i].s = stem
ContainsNotFirst(text) ==
    \E i \in 1..(Len(text) - 2) :
        /\ text[i] = W("ne") /\ text[i + 1] = Sp
        /\ text[i + 2].t = "w" /\ text[i + 2].s = "perv"

\* the condition as _try_eval_message_index_condition reads it
\* (scenario_engine.py:71-91): stripped, the two phrasings first, then the first
\* match of the regular expression
ParseCondition(text) ==
    IF text = <<>> THEN NoCond
    ELSE IF \A i \in 1..Len(text) : text[i].t = "sp" THEN BlankCond
    ELSE IF ContainsNotFirst(text) /\ Contains(text, "soobshch") THEN NotFirstCond
    ELSE IF Contains(text, "perv") /\ Contains(text, "soobshch") THEN FirstCond
    ELSE IF \E i \in 1..Len(text) : MatchesAt(text, i)
      THEN LET i == CHOOSE i \in 1..Len(text) :
                       MatchesAt(text, i) /\ \A j \in 1..(i - 1) : ~MatchesAt(text, j)
               o == SkipSp(text, i + 1)
           IN  CmpCond(text[o].s, text[SkipSp(text, o + 1)].n)
    ELSE FreeCond

\* the ways of writing the comparison of message_index with the literal k
Writings(op, k) ==
    { <<W("dialog"), P("."), W("message_index"), Sp, Op(op), Sp, Num(k)>>,
      <<W("message_index"), Op(op), Num(k)>>,
      <<P("("), W("MESSAGE_INDEX"), Sp, Sp, Op(op), Num(k), P(")")>> }

Comparisons == UNION {Writings(op, k) : op \in Ops, k \in 0..MaxK}

\* the two phrasings, alone and followed by a comparison
Phrasings ==
    { <<W("perv"), Sp, W("soobshch")>>,
      <<W("ne"), Sp, W("perv"), Sp, W("soobshch")>>,
      <<W("perv"), Sp, W("soobshch"), Sp, W("message_index"), Op("=="), Num(2)>> }

\* conditions that are neither: empty, blank, free text, another name, a word glued
\* to the name or to the literal, a single `=`, a negative literal, operands reversed
FreeTexts ==
    { <<>>, <<Sp>>, <<W("x")>>,
      <<W("x_message_index"), Op("=="), Num(1)>>,
      <<W("x"), W("message_index"), Op("=="), Num(1)>>,
      <<W("message_index"), Op("=="), Num(1), W("st")>>,
      <<W("message_index"), Sp, P("="), Sp, Num(1)>>,
      <<W("message_index"), Sp, Op(">"), Sp, P("-"), Num(1)>>,
      <<Num(1), Sp, Op("=="), Sp, W("message_index")>> }

CondTexts == Comparisons \cup Phrasings \cup FreeTexts

\* a comparison with more text after it, and one with a fractional literal
CompoundTexts ==
    { <<W("message_index"), Sp, Op("=="), Sp, Num(1), Sp, W("and"), Sp, W("x")>>,
      <<W("message_index"), Sp, Op("=="), Sp, Num(1), P("."), Num(5)>> }

AllCondTexts == CondTexts \cup CompoundTexts

\* a placeholder of neither namespace
OtherRef(expr) == [k |-> "other", a |-> expr, f |-> ""]

\* an `if` with tool, text, `if` and `end` nodes in its branches, and a text after it
NodeBranch(text) ==
    Scenario(<<"B">>,
      << TextNode(<<2>>, <<Lit("after")>>),
         IfNode(<<1>>, ParseCondition(text),
                << TextNode(<<1, 5>>, <<Lit("x")>>),
                   EndNode(<<1, 4>>),
                   IfNode(<<1, 3>>, FirstCond, << TextNode(<<1, 3, 1>>, <<Lit("deep")>>) >>, <<>>),
                   TextNode(<<1, 2>>, <<Lit("t"), ToolRef("get_user_data", "name")>>),
                   ToolNode(<<1, 1>>, "get_user_data") >>,
                << TextNode(<<1, 0, 1>>, <<Lit("f")>>),
                   ToolNode(<<1, 0, 2>>, "get_user_data"),
                   TextNode(<<1, 0, 3>>, <<ToolRef("get_user_data", "age")>>) >>) >>)

\* the placeholders of node 3 of NodeOrder, in order
OrderPieces ==
    << ToolRef("get_user_data", "name"), ToolRef("get_user_data", "age"),
       ToolRef("get_user_data", "birthday_date"), ToolRef("get_user_data", "zip"),
       ToolRef("get_user_data", ""), ToolRef("ghost", "name"), ToolRef("ghost", ""),
       DialogRef("name"), DialogRef("age"), DialogRef("message_index"),
       DialogRef("zip"), OtherRef("name") >>

\* text nodes before and after the tool node they reference; node 10 comes first in
\* the code and sorts last
NodeOrder(text) ==
    Scenario(<<"O">>,
      << TextNode(<<10>>, <<ToolRef("get_user_data", "name")>>),
         TextNode(<<3>>, OrderPieces),
         ToolNode(<<2>>, "get_user_data"),
         ToolNode(<<4>>, "get_user_data"),
         TextNode(<<1>>, <<Lit("a"), ToolRef("get_user_data", "name"), DialogRef("name")>>) >>)

NodeScenario(kind, text) == IF kind = "branch" THEN NodeBranch(text) ELSE NodeOrder(text)

NodeProfiles ==
    { <<NoneStr, NoneInt>>, <<"Ivan", 30>>, <<"Ivan", NoneInt>>, <<NoneStr, 30>>, <<"", NoneInt>> }

NodeConvs ==
    {[FreshState EXCEPT !.message_index = i, !.name = p[1], !.age = p[2]] :
        i \in 1..(MaxK + 1), p \in NodeProfiles}

\* the decider's replies
NodeReplies ==
    {CJValue(TRUE, [decision |-> d, followup_question |-> <<>>]) : d \in Decisions}

NoDecided == conditions_decide_node(EmptyToolsContext, <<>>)

InitNodes ==
    /\ InitTurns
    /\ registry = DefaultRegistry
    /\ tpc = "off"
    /\ tsub = NoTsub
    /\ eng \in {[pc |-> "run_scenario_map", text |-> t, conv |-> c, tool_out |-> o,
                 scenario |-> NodeScenario(k, t), run |-> NoRun, decided |-> NoDecided] :
                  t \in AllCondTexts, c \in NodeConvs,
                  o \in ToolResults \cup get_user_data, k \in {"branch", "order"}}
    /\ InitAux({"eng"})

\* run_scenario_map(state, scenario, tools)
NodesMap ==
    /\ eng.pc = "run_scenario_map"
    /\ \E r \in {run_scenario_map(eng.conv, eng.scenario, eng.tool_out)} :
          eng' = [eng EXCEPT !.pc = "conditions_decide", !.run = r]
    /\ UNCHANGED <<turnVars, registry, toolVars, gw, mm, http, snap, sgr>>

\* scenario_reduce and conditions_decide on the result; every call of the decider
\* gets the reply cj
NodesDecide ==
    /\ eng.pc = "conditions_decide"
    /\ \E cj \in NodeReplies :
       \E ctx \in {scenario_reduce_node(EmptyToolsContext,
                      IF eng.run.none THEN <<>> ELSE <<eng.run>>)} :
          eng' = [eng EXCEPT !.pc = "done",
                             !.decided = conditions_decide_node(ctx,
                                 [i \in 1..Len(ctx.instruction_blocks) |-> cj])]
    /\ UNCHANGED <<turnVars, registry, toolVars, gw, mm, http, snap, sgr>>

NextNodes == NodesMap \/ NodesDecide

SpecNodes == InitNodes /\ [][NextNodes]_vars

\* the blocks of the run and the ids of its text blocks
RunBlocks == eng.run.instruction_blocks
RunTextIds ==
    {RunBlocks[i].id.node : i \in {j \in 1..Len(RunBlocks) : RunBlocks[j].id.part = "text"}}
BlocksOfNode(id) == {i \in 1..Len(RunBlocks) : RunBlocks[i].id.node = id}

\* the arithmetic comparison a OP b
Compare(op, a, b) ==
    CASE op = "==" -> a = b
      [] op = "!=" -> a # b
      [] op = "<" -> a < b
      [] op = "<=" -> a <= b
      [] op = ">" -> a > b
      [] op = ">=" -> a >= b

NodesRan == eng.pc # "run_scenario_map" /\ eng.scenario.name = <<"B">>

\* the `if` of scenario B was decided to b: that branch ran as a node sequence (its
\* tool node, its texts, its nested `if`, its `end`), the other did not, and the
\* node left no block of its own
BranchRan(b) ==
    /\ BlocksOfNode(<<1>>) = {}
    /\ "get_user_data" \in DOMAIN eng.run.facts
    /\ IF b
         THEN /\ RunTextIds = {<<1, 2>>} \cup (IF eng.conv.message_index = 1 THEN {<<1, 3, 1>>} ELSE {})
         ELSE /\ RunTextIds = {<<1, 0, 1>>, <<1, 0, 3>>, <<2>>}

\* the `if` of scenario B became a conditional block and its judge rule
ConditionalEmitted ==
    /\ \E i \in BlocksOfNode(<<1>>) : RunBlocks[i].kind = "conditional" /\ RunBlocks[i].target = "agent"
    /\ \E i \in BlocksOfNode(<<1>>) : RunBlocks[i].kind = "rule" /\ RunBlocks[i].target = "judge"

\* C31 (SpecNodes): when the condition of the `if` is a comparison of
\* dialog.message_index with the literal k, the run executes children exactly when
\* message_index OP k holds and else_children otherwise, as a node sequence, and
\* emits no conditional block and no judge rule for the node; when the condition is
\* neither such a comparison nor a first/not-first phrasing, the node becomes a
\* conditional block.
C31_DeterministicIf ==
    NodesRan =>
        /\ \A op \in Ops, k \in 0..MaxK :
              eng.text \in Writings(op, k) => BranchRan(Compare(op, eng.conv.message_index, k))
        /\ eng.text \notin Comparisons \cup Phrasings => ConditionalEmitted

\* the part of C31 that holds: the comparisons, and the conditions that contain none
C31_ComparisonsDecided ==
    NodesRan =>
        /\ \A op \in Ops, k \in 0..MaxK :
              eng.text \in Writings(op, k) => BranchRan(Compare(op, eng.conv.message_index, k))
        /\ eng.text \in FreeTexts => ConditionalEmitted

\* the text of the run's text block for node id
RunText(id) == RunBlocks[CHOOSE i \in BlocksOfNode(id) : RunBlocks[i].id.part = "text"].text

OrderRan == eng.pc # "run_scenario_map" /\ eng.scenario.name = <<"O">>

ProfileFull(conv) == NameSet(conv.name) /\ conv.age # NoneInt

\* the fact the tool node 2 of scenario O records: the profile's name and age when
\* both are set, else what the tool returned
OrderFact ==
    IF ProfileFull(eng.conv) THEN Fact(eng.conv.name, eng.conv.age) ELSE eng.tool_out

\* str() of a name and of an age, finderror when it is None
NameText(v) == IF v = NoneStr THEN FindError ELSE IF v = "" THEN <<>> ELSE <<v>>
AgeText(v) == IF v = NoneInt THEN FindError ELSE <<ToString(v)>>

\* what node 3 of scenario O must render to, placeholder by placeholder
OrderExpected ==
    << IF OrderFact.empty THEN FindError ELSE <<OrderFact.name>>,
       IF OrderFact.empty THEN FindError ELSE <<ToString(OrderFact.age)>>,
       FindError,
       FindError,
       IF OrderFact.empty THEN FindError
       ELSE IF ProfileFull(eng.conv) THEN <<"{name,age}">> ELSE <<"{name,age,birthday_date}">>,
       FindError,
       FindError,
       NameText(eng.run.conv.name),
       AgeText(eng.run.conv.age),
       <<ToString(eng.conv.message_index)>>,
       FindError,
       FindError >>

RECURSIVE Flatten(_)
Flatten(seqs) == IF seqs = <<>> THEN <<>> ELSE Head(seqs) \o Flatten(Tail(seqs))

CondBlock == RunBlocks[CHOOSE i \in BlocksOfNode(<<1>>) : RunBlocks[i].kind = "conditional"]

\* the blocks conditions_decide left
DecidedBlocks == eng.decided.tools_context.instruction_blocks

\* C38 (SpecNodes): when the `if` of scenario B is not decided from message_index,
\* its conditional block carries the rendered direct text children of each branch
\* and nothing else happens on behalf of the branches: no tool is called, no fact
\* is recorded, the profile is not touched, the nested `if` contributes no text and
\* the `end` in the branch does not stop the run; whatever the decider answers,
\* conditions_decide adds only blocks built from those texts.
C38_UndecidedBranchesInert ==
    (NodesRan /\ ConditionalEmitted) =>
        /\ eng.run.calls = 0
        /\ DOMAIN eng.run.facts = {}
        /\ eng.run.conv = eng.conv
        /\ RunTextIds = {<<2>>}
        /\ CondBlock.payload.when_true = << <<"x">>, <<"t", "finderror">> >>
        /\ CondBlock.payload.when_false = << <<"f">>, <<"finderror">> >>
        /\ eng.pc = "done" =>
              /\ DOMAIN eng.decided.tools_context.facts = {}
              /\ \A i \in 1..Len(DecidedBlocks) :
                    (DecidedBlocks[i].id.node = <<1>> /\ DecidedBlocks[i].kind = "raw") =>
                        DecidedBlocks[i].text \in {<<"x">>, <<"t", "finderror">>, <<"f">>, <<"finderror">>}

\* an undecided `if` whose true branch the decider chose
C38_Witness ==
    /\ NodesRan /\ eng.pc = "done"
    /\ eng.text \in FreeTexts
    /\ \E i \in 1..Len(DecidedBlocks) :
          DecidedBlocks[i].id.tag = "applied:true" /\ DecidedBlocks[i].text = <<"t", "finderror">>

\* the comparison message_index == 1 followed by more text, decided from
\* message_index alone
C31_Witness ==
    /\ NodesRan
    /\ eng.text \in CompoundTexts
    /\ ~ConditionalEmitted

\* C32, one run (SpecNodes): in scenario O, whose nodes 2 and 4 are get_user_data
\* tool nodes, a profile with both name and age means no call and the fact made of
\* the profile's name and age; otherwise the tool is called once and only the
\* empty profile fields take the returned values.
C32_OneRun ==
    OrderRan =>
        IF ProfileFull(eng.conv)
          THEN /\ eng.run.calls = 0
               /\ eng.run.facts["get_user_data"] = Fact(eng.conv.name, eng.conv.age)
               /\ eng.run.conv = eng.conv
          ELSE /\ eng.run.calls = 1
               /\ eng.run.facts["get_user_data"] = eng.tool_out
               /\ NameSet(eng.conv.name) => eng.run.conv.name = eng.conv.name
               /\ eng.conv.age # NoneInt => eng.run.conv.age = eng.conv.age
               /\ ~NameSet(eng.conv.name) => eng.run.conv.name = eng.tool_out.name
               /\ (eng.conv.age = NoneInt) => eng.run.conv.age = eng.tool_out.age

(***************************************************************************)
(* Properties of the turn graph and the summarizer over several turns.     *)
(***************************************************************************)
\* C32 (Spec): over the turns of one conversation a stored profile name or age
\* that has been set is never changed.
C32_ProfileNeverChanges ==
    [][ /\ NameSet(mem_state.v.name) => mem_state'.v.name = mem_state.v.name
        /\ mem_state.v.age # NoneInt => mem_state'.v.age = mem_state.v.age ]_vars

\* C37 (SpecSerial): a summary that the summarizer of an earlier turn saved while a
\* turn was between load_state and persist_answer is still the stored summary after
\* that turn's persist_answer: persist_answer leaves the stored summary as it is.
C37_SummarySurvivesPersist ==
    [][ \A t \in Slots :
          (pc[t] = "persist_answer" /\ pc'[t] = "launch_summary") =>
              mem_state'.v.summary = mem_state.v.summary ]_vars

\* the same with the in-memory store only
C37_InMemory ==
    [][ \A t \in Slots :
          (memKind = "inmemory" /\ pc[t] = "persist_answer" /\ pc'[t] = "launch_summary") =>
              mem_state'.v.summary = mem_state.v.summary ]_vars

\* the number of user items of the history
UserItems == Cardinality({i \in 1..Len(mem_history) : mem_history[i].role = "user"})

\* C39 (SpecSerial): in every state between turns, whether the turns before
\* returned or aborted, the history has even length with the roles user and
\* assistant alternating, and the stored message_index is the number of user items.
C39_AllOrNothing ==
    (\A t \in Slots : ~InFlight(t)) =>
        /\ Len(mem_history) % 2 = 0
        /\ \A i \in 1..Len(mem_history) :
              mem_history[i].role = IF i % 2 = 1 THEN "user" ELSE "assistant"
        /\ get_state.message_index = UserItems

\* the same for turns that all returned
C39_WhenNoTurnAborts ==
    ((\A t \in Slots : ~InFlight(t)) /\ outcome.raised = 0) =>
        /\ Len(mem_history) % 2 = 0
        /\ \A i \in 1..Len(mem_history) :
              mem_history[i].role = IF i % 2 = 1 THEN "user" ELSE "assistant"
        /\ get_state.message_index = UserItems

(***************************************************************************)
(* Termination of a turn.  The event loop resumes a coroutine when the     *)
(* call it awaits has returned or raised, so a request that is in the      *)
(* graph, or has left it, eventually takes its next step.  Every step of a *)
(* request changes its position and no other step does, so the fairness    *)
(* condition is weak fairness of "the position of request t changes";      *)
(* C36 checks with it that a request that is not idle always has a step.   *)
(***************************************************************************)
LiveTurns == 2

\* a client that sends LiveTurns requests, each after the previous one has ended
NextLive ==
    \/ \E t \in Slots : Chat(t, LiveTurns) /\ \A u \in Slots : pc[u] = "idle"
    \/ \E t \in Slots : TurnStep(t)
    \/ \E k \in TurnIds : SummStep(k)

GraphNodes ==
    {"load_state", "append_user", "retrieval", "tools_subgraph", "build_messages",
     "llm_generate", "judge_evaluate", "judge_revise", "persist_answer", "launch_summary"}

\* request t is resumed: its position changes
Resume(t) ==
    /\ pc[t] # "idle"
    /\ \E x \in (GraphNodes \cup {"done", "failed", "idle"}) \ {pc[t]} : pc' = [pc EXCEPT ![t] = x]

SpecLive == Init /\ [][NextLive]_vars /\ \A t \in Slots : WF_pc(Resume(t))

\* the edges of the turn graph (graph_pipeline.py:434-450), END being "done"
GraphEdges ==
    { <<"load_state", "append_user">>, <<"append_user", "retrieval">>,
      <<"retrieval", "tools_subgraph">>, <<"tools_subgraph", "build_messages">>,
      <<"build_messages", "llm_generate">>, <<"llm_generate", "judge_evaluate">>,
      <<"judge_evaluate", "judge_revise">>, <<"judge_evaluate", "persist_answer">>,
      <<"judge_revise", "judge_evaluate">>, <<"persist_answer", "launch_summary">>,
      <<"launch_summary", "done">> }

\* the nodes that call an LLM
CallNodes == {"tools_subgraph", "llm_generate", "judge_evaluate", "judge_revise"}

\* the most judge_evaluate runs of one turn
MaxJudgeRuns == JudgeCap + 1

\* tools_subgraph_node has no guard but the position: it has a step when the sets
\* its inputs are drawn from are not empty
ToolsStepPossible == get_user_data # {} /\ DecisionResults # {} /\ SummaryResults # {}

RECURSIVE NodeIds(_)
NodeIds(nodes) ==
    IF nodes = <<>> THEN <<>>
    ELSE <<Head(nodes).id>> \o NodeIds(Head(nodes).children)
           \o NodeIds(Head(nodes).else_children) \o NodeIds(Tail(nodes))

\* the place of a node type in the root sequence
TypeRank(type) == CASE type = "tool" -> 1 [] type = "text" -> 2 [] type = "if" -> 3 [] OTHER -> 4

Assembled == sgr.scenario # <<>>

\* C35 (SpecSgr): in the assembled scenario the ids of all nodes, root and nested,
\* are pairwise distinct; the root sequence is the tool nodes, one per distinct
\* tool, then the lines of the unconditional intents followed by the lines of the
\* global templates, then one `if` per condition, then one `end`, which is last;
\* and sorting the root sequence and each branch by integer-tuple id leaves it as
\* it was emitted.
C35_AssembledOrder ==
    Assembled =>
        LET code == sgr.scenario.code
            ids == NodeIds(code)
            of(type) == SelectSeq(code, LAMBDA n : n.type = type)
        IN  /\ \A i, j \in 1..Len(ids) : i # j => ids[i] # ids[j]
            /\ \A i, j \in 1..Len(code) : i < j => TypeRank(code[i].type) <= TypeRank(code[j].type)
            /\ Len(of("end")) = 1 /\ code[Len(code)].type = "end"
            /\ Len(of("if")) = Len(sgr.step2.conditions)
            /\ [i \in 1..Len(of("tool")) |-> of("tool")[i].tool] = add_tool(<<>>, sgr.step3.tools_to_call)
            /\ [i \in 1..Len(of("text")) |-> of("text")[i].text]
                 = Lines(Concat(IntentTexts(sgr.step2, sgr.step2.unconditional_intents)))
                     \o Lines(Concat(TemplateTexts(sgr.step3, "global", "")))
            /\ SortNodes(code) = code
            /\ \A i \in 1..Len(code) :
                  /\ SortNodes(code[i].children) = code[i].children
                  /\ SortNodes(code[i].else_children) = code[i].else_children

\* a scenario with a tool node, root texts and two `if` nodes with both branches
C35_Witness ==
    /\ Assembled
    /\ \E i \in 1..Len(sgr.scenario.code) : sgr.scenario.code[i].type = "tool"
    /\ \E i, j \in 1..Len(sgr.scenario.code) :
          /\ i < j
          /\ sgr.scenario.code[i].type = "if" /\ sgr.scenario.code[j].type = "if"
          /\ Len(sgr.scenario.code[i].children) = 2
          /\ Len(sgr.scenario.code[j].else_children) = 2

\* C34 (SpecSgr): every attempt of a step is made with the key the rotation counter
\* selects when the attempt starts, the first attempt of a step after a rate limit
\* in an earlier step included, and the attempts of one step use pairwise distinct
\* keys in rotation order.
C34_SelectedKey ==
    /\ \A i \in 1..Len(sgr.used) : sgr.used[i].key = sgr.used[i].selected
    /\ \A i, j \in 1..Len(sgr.used) : i # j => sgr.used[i].key # sgr.used[j].key
    /\ \A i \in 1..(Len(sgr.used) - 1) : sgr.used[i + 1].key = (sgr.used[i].key + 1) % sgr.keys

\* the part of C34 that holds: until the first rate limit of the conversion has
\* been retried, and in every retry, the attempt uses the selected key
C34_RetriesUseSelectedKey ==
    /\ \A i \in 2..Len(sgr.used) : sgr.used[i].key = sgr.used[i].selected
    /\ sgr.pc = Steps[1] => C34_SelectedKey

(***************************************************************************)
(* Concurrent calls of LLMClient.complete_chat that share the rotation     *)
(* counter (SpecShared).  The key is read inside the worker thread that    *)
(* sends the request (anyio.to_thread.run_sync), the counter is advanced   *)
(* when the reply has arrived; other calls run in between.                 *)
(*   gw.n, gw.redis, gw.counter : as above                                 *)
(*   gw.first : the counter before the calls                               *)
(*   gw.pool  : the calls: position, keys of the requests sent, rate-limit *)
(*              errors received, error raised                              *)
(***************************************************************************)
SharedCalls == 2

InitShared ==
    /\ InitTurns
    /\ registry = DefaultRegistry
    /\ tpc = "off"
    /\ tsub = NoTsub
    /\ gw \in {[n |-> n, redis |-> "up", counter |-> c, first |-> c,
                pool |-> [i \in 1..SharedCalls |-> NoCall]] : n \in 2..MaxKeys, c \in 0..1}
    /\ InitAux({"gw"})

\* a caller enters complete_chat
SharedStart(i) ==
    /\ gw.pool[i].pc = "idle"
    /\ gw' = [gw EXCEPT !.pool[i] = [NoCall EXCEPT !.client = "v0_1", !.pc = "request",
                                                   !.start = get_openai_api_key_rotation_index(gw)]]
    /\ UNCHANGED <<turnVars, registry, toolVars, eng, mm, http, snap, sgr>>

\* _call in the worker thread: the key is read and the request is sent
SharedSend(i) ==
    /\ gw.pool[i].pc = "request"
    /\ gw' = [gw EXCEPT !.pool[i].used = Append(@, get_effective_openai_api_key(gw)),
                        !.pool[i].pc = "awaiting"]
    /\ UNCHANGED <<turnVars, registry, toolVars, eng, mm, http, snap, sgr>>

\* the reply arrives: break, or mark and continue, or raise
SharedReply(i) ==
    /\ gw.pool[i].pc = "awaiting"
    /\ \E reply \in GatewayReplies :
          gw' = CASE reply = "ok" -> [gw EXCEPT !.pool[i].pc = "returned"]
                  [] reply = "rate" ->
                       [gw EXCEPT !.counter = mark_openai_api_key_rate_limited(gw),
                                  !.pool[i].rate_errors = @ + 1,
                                  !.pool[i].pc = IF Len(gw.pool[i].used) < gw.n
                                                   THEN "request" ELSE "raised",
                                  !.pool[i].err = IF Len(gw.pool[i].used) < gw.n
                                                    THEN "none" ELSE "rate"]
                  [] OTHER -> [gw EXCEPT !.pool[i].pc = "raised", !.pool[i].err = "other"]
    /\ UNCHANGED <<turnVars, registry, toolVars, eng, mm, http, snap, sgr>>

NextShared == \E i \in 1..SharedCalls : SharedStart(i) \/ SharedSend(i) \/ SharedReply(i)

SpecShared == InitShared /\ [][NextShared]_vars

\* the rate-limit errors all calls have received so far
RECURSIVE RateErrorsUpTo(_)
RateErrorsUpTo(i) == IF i = 0 THEN 0 ELSE gw.pool[i].rate_errors + RateErrorsUpTo(i - 1)

\* C40 (SpecShared): with calls running concurrently on the shared counter, no
\* call sends two of its requests with the same key, a call gives up on rate
\* limits only when it has tried every key, and the counter has advanced by
\* exactly one for every rate-limit error received.
C40_SharedRotation ==
    /\ \A i \in 1..SharedCalls :
          /\ \A a, b \in 1..Len(gw.pool[i].used) : a # b => gw.pool[i].used[a] # gw.pool[i].used[b]
          /\ (gw.pool[i].pc = "raised" /\ gw.pool[i].err = "rate")
                => {gw.pool[i].used[a] : a \in 1..Len(gw.pool[i].used)} = 0..(gw.n - 1)
    /\ gw.counter = gw.first + RateErrorsUpTo(SharedCalls)

\* the part of C40 that holds: the counter loses no increment and never decreases
C40_CounterExact ==
    /\ [](gw.counter = gw.first + RateErrorsUpTo(SharedCalls))
    /\ [][gw'.counter >= gw.counter]_vars

\* the same for a call that runs alone
C40_AloneDistinct ==
    \A i \in 1..SharedCalls :
        (\A j \in 1..SharedCalls : j # i => gw.pool[j].pc = "idle") =>
            \A a, b \in 1..Len(gw.pool[i].used) : a # b => gw.pool[i].used[a] # gw.pool[i].used[b]

====
